---- MODULE Spec2Model ----
(***************************************************************************)
(* Elastic Binary Trees: the 32-bit integer variant (ebtree.h, version 2)   *)
(* and the multi-byte variant (ebmbtree.h, version 5).                     *)
(*                                                                         *)
(* The heap is modelled as a function from addresses to struct eb32_node.  *)
(* A u32 is modelled exactly, as the set of the positions (0..31) of its   *)
(* set bits, so that xor, and, shifts, unsigned comparison and unsigned    *)
(* wrap-around are computed on all 32 bits.                                *)
(***************************************************************************)
EXTENDS Integers, Sequences, FiniteSets, TLC

\* ------------------------------------------------------------------ bounds
\* number of eb32_node objects the caller owns
MaxNodes == 4
\* keys of the lower half of the key range are 0 .. MaxKey
MaxKey == 4
\* keys of the upper half are 2^31 + (0 .. MaxHighKey)
MaxHighKey == 1
\* number of eb32_node objects the caller owns when it also makes read-only calls
MaxRONodes == 3
\* number of eb32_node objects the caller owns when it inserts them again
\* after their deletion
MaxZNodes == 3
\* number of calls of __eb32_insert in that case
MaxZInserts == 4
\* fls is tried on the xor of two values with at most MaxFlsBits bits set each
MaxFlsBits == 2
\* number of ebmb_node objects the caller owns
MaxMB == 4
\* number of calls of __ebmb_insert and ebmb_delete on the multi-byte tree (a
\* deleted node may be inserted again)
MaxMBCalls == 4
\* the len argument of the multi-byte calls: the keys of a tree have KeyLen bytes
KeyLen == 2

\* --------------------------------------------------------------- addresses
NULL == 0
Nodes == 1..MaxNodes
Root == MaxNodes + 1
Ptrs == Nodes \cup {Root}

\* ------------------------------------------------------------ u32 as bits
INTBITS == 32
BitIdx == 0..(INTBITS - 1)

RECURSIVE U32(_)
\* the u32 whose value is the natural number n (n < 2^31)
U32(n) == IF n = 0 THEN {} ELSE
          (IF n % 2 = 1 THEN {0} ELSE {}) \cup {i + 1 : i \in U32(n \div 2)}

Zero == {}
MaxOf(S) == CHOOSE i \in S : \A j \in S : j <= i
MinOf(S) == CHOOSE i \in S : \A j \in S : i <= j

\* a ^ b
Xor(a, b) == (a \ b) \cup (b \ a)
\* a & b
And(a, b) == a \cap b
\* a >> n on 32 bits
Shr(a, n) == {i - n : i \in {j \in a : j >= n}}
\* (a >> n) & 1
BitAt(a, n) == IF n \in a THEN 1 ELSE 0
\* unsigned a > b
Gt(a, b) == a # b /\ MaxOf(Xor(a, b)) \in a
\* unsigned a <= b
Le(a, b) == ~Gt(a, b)
\* unsigned a - 1 and a + 1, modulo 2^32
Dec(a) == IF a = {} THEN BitIdx
          ELSE LET k == MinOf(a) IN (a \ {k}) \cup {i \in BitIdx : i < k}
Inc(a) == IF a = BitIdx THEN {}
          ELSE LET k == MinOf(BitIdx \ a) IN (a \ {i \in BitIdx : i < k}) \cup {k}

\* fls as it would be with a 0-based result (the final "+ 1" forgotten)
fls_zero_based(a) == MaxOf(a)

\* the masks of the portable fls macro
Mask16 == {i \in BitIdx : i >= 16}
Mask8 == {i \in BitIdx : i % 16 >= 8}
Mask4 == {i \in BitIdx : i % 8 >= 4}
Mask2 == {i \in BitIdx : i % 4 >= 2}
Mask1 == {i \in BitIdx : i % 2 = 1}

\* the macro as it would be without its test of 0xff00ff00
fls_no_byte(a) ==
  LET x0 == a
      h16 == And(x0, Mask16) # Zero
      x1 == IF h16 THEN And(x0, Mask16) ELSE x0
      b1 == IF h16 THEN 16 ELSE 0
      h4 == And(x1, Mask4) # Zero
      x3 == IF h4 THEN And(x1, Mask4) ELSE x1
      b3 == IF h4 THEN b1 + 4 ELSE b1
      h2 == And(x3, Mask2) # Zero
      x4 == IF h2 THEN And(x3, Mask2) ELSE x3
      b4 == IF h2 THEN b3 + 2 ELSE b3
      h1 == And(x4, Mask1) # Zero
      b5 == IF h1 THEN b4 + 1 ELSE b4
  IN b5 + 1

\* #define fls(___a): five tests, each keeping the upper half that is not 0
fls(a) ==
  LET x0 == a
      h16 == And(x0, Mask16) # Zero
      x1 == IF h16 THEN And(x0, Mask16) ELSE x0
      b1 == IF h16 THEN 16 ELSE 0
      h8 == And(x1, Mask8) # Zero
      x2 == IF h8 THEN And(x1, Mask8) ELSE x1
      b2 == IF h8 THEN b1 + 8 ELSE b1
      h4 == And(x2, Mask4) # Zero
      x3 == IF h4 THEN And(x2, Mask4) ELSE x2
      b3 == IF h4 THEN b2 + 4 ELSE b2
      h2 == And(x3, Mask2) # Zero
      x4 == IF h2 THEN And(x3, Mask2) ELSE x3
      b4 == IF h2 THEN b3 + 2 ELSE b3
      h1 == And(x4, Mask1) # Zero
      b5 == IF h1 THEN b4 + 1 ELSE b4
  IN b5 + 1

\* the values fls is tried on are the xor of two of these: the u32 with at
\* most MaxFlsBits bits set
RECURSIVE FlsSets(_)
FlsSets(k) == IF k = 0 THEN {Zero}
              ELSE LET S == FlsSets(k - 1) IN S \cup {v \cup {i} : v \in S, i \in BitIdx}
FlsValues == FlsSets(MaxFlsBits)

\* the keys the caller inserts
LowKeys == {U32(k) : k \in 0..MaxKey}
HighKeys == {U32(k) \cup {INTBITS - 1} : k \in 0..MaxHighKey}
Keys == LowKeys \cup HighKeys
\* queries: the keys of the model and their neighbours
Queries == {U32(k) : k \in 0..(MaxKey + 3)}
           \cup {U32(k) \cup {INTBITS - 1} : k \in 0..(MaxHighKey + 2)}

\* ------------------------------------------------------------------ state
VARIABLES
  node,   \* the heap: node[p] is the struct eb32_node at address p
  order,  \* the nodes now in the tree, in the order of their insertion
  ret,    \* the value returned by the last __eb_delete (-1: none yet)
  last,   \* the last call: its name, its argument and the path it took
  used,   \* the number of calls of __eb32_insert so far
  ro,     \* the read-only call made since the last update, and what it returned
  znode,  \* a second heap, where the caller zeroes every node before it inserts it
  zret,   \* the value returned by the last __eb_delete on the second heap
  flsv,   \* the last use of fls: the two values compared, their xor, the result
  mb,     \* the heap of the multi-byte tree: struct eb_root and struct ebmb_node
  mborder, \* the ebmb nodes linked into the tree, in the order of their insertion
  mblast, \* the last __ebmb_insert or ebmb_delete: its argument, what it
          \* returned, its path
  mbused  \* the number of calls of __ebmb_insert and ebmb_delete so far

intvars == <<node, order, ret, last, used, ro, znode, zret, flsv>>
mbvars == <<mb, mborder, mblast, mbused>>
vars == <<node, order, ret, last, used, ro, znode, zret, flsv, mb, mborder, mblast, mbused>>

Pair(a, b) == (0 :> a) @@ (1 :> b)

\* struct eb32_node as EB32_TREE_HEAD initialises it
TreeHead == [dup_n |-> NULL, dup_p |-> NULL, leaf_p |-> NULL, link_p |-> NULL,
             leaf |-> Pair(NULL, NULL), bit |-> INTBITS, val |-> Zero]
\* a node the caller has zeroed (memset) before setting its val to x
ZeroNode(x) == [dup_n |-> NULL, dup_p |-> NULL, leaf_p |-> NULL, link_p |-> NULL,
                leaf |-> Pair(NULL, NULL), bit |-> 0, val |-> x]
\* the storage of a node the caller has not inserted yet. The caller sets val
\* only ("Only new->leaf.val needs be set"), so the other fields hold whatever
\* the memory held before: here the image of a node that was once in a tree,
\* with a link in use (bit != 0) and every pointer set.
StaleNode == [dup_n |-> Root, dup_p |-> Root, leaf_p |-> Root, link_p |-> Root,
              leaf |-> Pair(Root, Root), bit |-> INTBITS, val |-> Zero]

\* ------------------------------------------------------------- list macros
LIST_INIT(m, l) == [m EXCEPT ![l].dup_n = l, ![l].dup_p = l]

\* LIST_ADDQ as it would be if it added right after the head (a LIST_ADD)
LIST_ADD_after_head(m, lh, el) ==
  LET m1 == [m EXCEPT ![el].dup_n = m[lh].dup_n]
      m2 == [m1 EXCEPT ![lh].dup_n = el]
      m3 == [m2 EXCEPT ![m1[el].dup_n].dup_p = el]
  IN [m3 EXCEPT ![el].dup_p = lh]

LIST_ADDQ(m, lh, el) ==
  LET m1 == [m EXCEPT ![el].dup_p = m[lh].dup_p]
      m2 == [m1 EXCEPT ![lh].dup_p = el]
      m3 == [m2 EXCEPT ![m1[el].dup_p].dup_n = el]
  IN [m3 EXCEPT ![el].dup_n = lh]

\* LIST_DEL as it would be with its second assignment forgotten
LIST_DEL_half(m, el) == [m EXCEPT ![m[el].dup_n].dup_p = m[el].dup_p]

LIST_DEL(m, el) ==
  LET m1 == [m EXCEPT ![m[el].dup_n].dup_p = m[el].dup_p]
  IN [m1 EXCEPT ![m1[el].dup_p].dup_n = m1[el].dup_n]

\* ---------------------------------------------------------------- walking
RECURSIVE eb_walk_down(_, _, _, _)
eb_walk_down(m, root, side, start) ==
  IF start = NULL THEN start
  ELSE IF m[start].leaf_p # root
       THEN eb_walk_down(m, start, side, m[start].leaf[side])
       ELSE start

RECURSIVE eb_walk_up(_, _, _, _)
eb_walk_up(m, n, side, par) ==
  IF m[par].leaf[side] = n
  THEN IF m[par].link_p = NULL THEN NULL
       ELSE eb_walk_up(m, par, side, m[par].link_p)
  ELSE par

\* the address of the other child of par, by xor of the three addresses
RECURSIVE XorAddr(_, _)
XorAddr(a, b) == IF a = 0 THEN b ELSE IF b = 0 THEN a
                 ELSE ((a + b) % 2) + 2 * XorAddr(a \div 2, b \div 2)
eb_sibling_with_parent(m, n, par) ==
  XorAddr(XorAddr(m[par].leaf[0], m[par].leaf[1]), n)

\* for (branch = 0; branch <= 1; branch++), branch unsigned
RECURSIVE eb_first_loop(_, _, _)
eb_first_loop(m, root, branch) ==
  IF Le(branch, U32(1))
  THEN LET r == eb_walk_down(m, root, 0, m[root].leaf[BitAt(branch, 0)])
       IN IF r # NULL THEN r ELSE eb_first_loop(m, root, Inc(branch))
  ELSE NULL
eb_first_node(m, root) == eb_first_loop(m, root, U32(0))

\* the loop as it would be if its body ran for branch 1 only
eb_last_loop_single(m, root, branch) ==
  IF Le(branch, U32(1))
  THEN eb_walk_down(m, root, 1, m[root].leaf[BitAt(branch, 0)])
  ELSE NULL

\* for (branch = 1; branch <= 1; branch--), branch unsigned
RECURSIVE eb_last_loop(_, _, _)
eb_last_loop(m, root, branch) ==
  IF Le(branch, U32(1))
  THEN LET r == eb_walk_down(m, root, 1, m[root].leaf[BitAt(branch, 0)])
       IN IF r # NULL THEN r ELSE eb_last_loop(m, root, Dec(branch))
  ELSE NULL
eb_last_node(m, root) == eb_last_loop(m, root, U32(1))

\* the values of branch with which the body of that loop runs, in order
RECURSIVE eb_last_passes(_, _, _)
eb_last_passes(m, root, branch) ==
  IF Le(branch, U32(1))
  THEN LET r == eb_walk_down(m, root, 1, m[root].leaf[BitAt(branch, 0)])
       IN IF r # NULL THEN <<branch>>
          ELSE <<branch>> \o eb_last_passes(m, root, Dec(branch))
  ELSE <<>>

eb_next_node(m, n) ==
  LET d == m[n].dup_n
      isdup == d # n /\ m[d].leaf_p = NULL
      n1 == IF d # n THEN d ELSE n
      up == eb_walk_up(m, n1, 1, m[n1].leaf_p)
  IN IF isdup THEN d
     ELSE IF up # NULL THEN eb_walk_down(m, up, 0, m[up].leaf[1]) ELSE NULL

eb_prev_node(m, n) ==
  LET d == m[n].dup_p
      isdup == d # n /\ m[d].leaf_p = NULL
      n1 == IF d # n THEN d ELSE n
      up == eb_walk_up(m, n1, 0, m[n1].leaf_p)
  IN IF isdup THEN d
     ELSE IF up # NULL THEN eb_walk_down(m, up, 1, m[up].leaf[0]) ELSE NULL

\* ----------------------------------------------------------------- lookup
\* the lookup as it would be with the divergence test one bit too low
RECURSIVE eb32_lookup_low_shift(_, _, _)
eb32_lookup_low_shift(m, root, x) ==
  LET parent == root
      r == IF BitAt(x, m[parent].bit - 1) = 1
           THEN m[parent].leaf[1] ELSE m[parent].leaf[0]
  IN IF r = NULL THEN NULL
     ELSE IF m[r].leaf_p = parent
          THEN (IF m[r].val = x THEN r ELSE NULL)
     ELSE IF Xor(x, m[r].val) = Zero THEN r
     ELSE IF Shr(Xor(x, m[r].val), m[r].bit - 1) # Zero THEN NULL
     ELSE eb32_lookup_low_shift(m, r, x)

RECURSIVE eb32_lookup(_, _, _)
eb32_lookup(m, root, x) ==
  LET parent == root
      r == IF BitAt(x, m[parent].bit - 1) = 1
           THEN m[parent].leaf[1] ELSE m[parent].leaf[0]
  IN IF r = NULL THEN NULL
     ELSE IF m[r].leaf_p = parent
          THEN (IF m[r].val = x THEN r ELSE NULL)
     ELSE IF Xor(x, m[r].val) = Zero THEN r
     ELSE IF Shr(Xor(x, m[r].val), m[r].bit) # Zero THEN NULL
     ELSE eb32_lookup(m, r, x)

\* the exit a lookup takes: "null" (no child), "leaf", "equal" (the link
\* carries x) or "diverge" (x leaves the prefix of the link)
RECURSIVE lookup_exit(_, _, _)
lookup_exit(m, root, x) ==
  LET parent == root
      r == IF BitAt(x, m[parent].bit - 1) = 1
           THEN m[parent].leaf[1] ELSE m[parent].leaf[0]
  IN IF r = NULL THEN "null"
     ELSE IF m[r].leaf_p = parent THEN "leaf"
     ELSE IF Xor(x, m[r].val) = Zero THEN "equal"
     ELSE IF Shr(Xor(x, m[r].val), m[r].bit) # Zero THEN "diverge"
     ELSE lookup_exit(m, r, x)

\* --------------------------------------------------------- read-only calls
\* The five functions and the two walks once more, run statement by statement
\* on a frame: the heap (mem) together with the parameters and locals of the
\* running function. An assignment to a parameter or a local changes that
\* field of the frame, a store through a pointer would change mem, and a call
\* hands the heap to the callee and goes on with the heap the callee leaves.
\* A function returns the heap it leaves and its value.

\* the while (1) loop of __eb32_lookup as it would be with an assignment
\* (root->node.leaf_p = parent) for the comparison of its leaf test
RECURSIVE eb32_lookup_while_assign(_)
eb32_lookup_while_assign(f) ==
  LET f1 == [f EXCEPT !.parent = f.root]
      f2 == IF BitAt(f1.x, f1.mem[f1.parent].bit - 1) = 1
            THEN [f1 EXCEPT !.root = f1.mem[f1.parent].leaf[1]]
            ELSE [f1 EXCEPT !.root = f1.mem[f1.parent].leaf[0]]
      f3 == [f2 EXCEPT !.mem[f2.root].leaf_p = f2.parent]
  IN IF f2.root = NULL THEN [mem |-> f2.mem, ret |-> NULL]
     ELSE IF f3.mem[f3.root].leaf_p # NULL
          THEN (IF f3.mem[f3.root].val = f3.x
                THEN [mem |-> f3.mem, ret |-> f3.root]
                ELSE [mem |-> f3.mem, ret |-> NULL])
     ELSE IF Xor(f3.x, f3.mem[f3.root].val) = Zero
          THEN [mem |-> f3.mem, ret |-> f3.root]
     ELSE IF Shr(Xor(f3.x, f3.mem[f3.root].val), f3.mem[f3.root].bit) # Zero
          THEN [mem |-> f3.mem, ret |-> NULL]
     ELSE eb32_lookup_while_assign(f3)

\* the while (1) loop of __eb32_lookup; the frame holds root, parent and x
RECURSIVE eb32_lookup_while(_)
eb32_lookup_while(f) ==
  LET f1 == [f EXCEPT !.parent = f.root]
      f2 == IF BitAt(f1.x, f1.mem[f1.parent].bit - 1) = 1
            THEN [f1 EXCEPT !.root = f1.mem[f1.parent].leaf[1]]
            ELSE [f1 EXCEPT !.root = f1.mem[f1.parent].leaf[0]]
  IN IF f2.root = NULL THEN [mem |-> f2.mem, ret |-> NULL]
     ELSE IF f2.mem[f2.root].leaf_p = f2.parent
          THEN (IF f2.mem[f2.root].val = f2.x
                THEN [mem |-> f2.mem, ret |-> f2.root]
                ELSE [mem |-> f2.mem, ret |-> NULL])
     ELSE IF Xor(f2.x, f2.mem[f2.root].val) = Zero
          THEN [mem |-> f2.mem, ret |-> f2.root]
     ELSE IF Shr(Xor(f2.x, f2.mem[f2.root].val), f2.mem[f2.root].bit) # Zero
          THEN [mem |-> f2.mem, ret |-> NULL]
     ELSE eb32_lookup_while(f2)

\* __eb32_lookup(root, x); parent is assigned before it is read
eb32_lookup_call(m, root, x) ==
  eb32_lookup_while([mem |-> m, root |-> root, parent |-> NULL, x |-> x])

\* the while loop of __eb_walk_down; the frame holds root, side and start
RECURSIVE eb_walk_down_while(_)
eb_walk_down_while(f) ==
  IF f.mem[f.start].leaf_p # f.root
  THEN LET f1 == [f EXCEPT !.root = f.start]
           f2 == [f1 EXCEPT !.start = f1.mem[f1.start].leaf[f1.side]]
       IN eb_walk_down_while(f2)
  ELSE [mem |-> f.mem, ret |-> f.start]

\* __eb_walk_down(root, side, start) and the macro eb_walk_down
eb_walk_down_call(m, root, side, start) ==
  IF start = NULL THEN [mem |-> m, ret |-> start]
  ELSE eb_walk_down_while([mem |-> m, root |-> root, side |-> side, start |-> start])

\* the while loop of eb_walk_up; the frame holds node (n), side and par
RECURSIVE eb_walk_up_while(_)
eb_walk_up_while(f) ==
  IF f.mem[f.par].leaf[f.side] = f.n
  THEN LET f1 == [f EXCEPT !.n = f.par]
           f2 == [f1 EXCEPT !.par = f1.mem[f1.par].link_p]
       IN IF f2.par = NULL THEN [mem |-> f2.mem, ret |-> f2.par]
          ELSE eb_walk_up_while(f2)
  ELSE [mem |-> f.mem, ret |-> f.par]

\* eb_walk_up(node, side, par)
eb_walk_up_call(m, n, side, par) ==
  eb_walk_up_while([mem |-> m, n |-> n, side |-> side, par |-> par])

\* for (branch = 0; branch <= 1; branch++) of eb_first_node; the frame holds
\* root, branch and ret
RECURSIVE eb_first_for(_)
eb_first_for(f) ==
  IF Le(f.branch, U32(1))
  THEN LET w == eb_walk_down_call(f.mem, f.root, 0,
                                  f.mem[f.root].leaf[BitAt(f.branch, 0)])
           f1 == [f EXCEPT !.mem = w.mem, !.ret = w.ret]
       IN IF f1.ret # NULL THEN [mem |-> f1.mem, ret |-> f1.ret]
          ELSE eb_first_for([f1 EXCEPT !.branch = Inc(f1.branch)])
  ELSE [mem |-> f.mem, ret |-> f.ret]

\* eb_first_node(root); ret is assigned in the first pass of the loop
eb_first_call(m, root) ==
  eb_first_for([mem |-> m, root |-> root, branch |-> U32(0), ret |-> NULL])

\* for (branch = 1; branch <= 1; branch--) of eb_last_node
RECURSIVE eb_last_for(_)
eb_last_for(f) ==
  IF Le(f.branch, U32(1))
  THEN LET w == eb_walk_down_call(f.mem, f.root, 1,
                                  f.mem[f.root].leaf[BitAt(f.branch, 0)])
           f1 == [f EXCEPT !.mem = w.mem, !.ret = w.ret]
       IN IF f1.ret # NULL THEN [mem |-> f1.mem, ret |-> f1.ret]
          ELSE eb_last_for([f1 EXCEPT !.branch = Dec(f1.branch)])
  ELSE [mem |-> f.mem, ret |-> f.ret]

\* eb_last_node(root)
eb_last_call(m, root) ==
  eb_last_for([mem |-> m, root |-> root, branch |-> U32(1), ret |-> NULL])

\* eb_next_node(node); the frame holds node (n)
eb_next_call(m, n) ==
  LET f == [mem |-> m, n |-> n]
      indup == f.mem[f.n].dup_n # f.n
      f1 == IF indup THEN [f EXCEPT !.n = f.mem[f.n].dup_n] ELSE f
  IN IF indup /\ f1.mem[f1.n].leaf_p = NULL THEN [mem |-> f1.mem, ret |-> f1.n]
     ELSE LET u == eb_walk_up_call(f1.mem, f1.n, 1, f1.mem[f1.n].leaf_p)
              f2 == [f1 EXCEPT !.mem = u.mem, !.n = u.ret]
          IN IF f2.n # NULL
             THEN LET d == eb_walk_down_call(f2.mem, f2.n, 0, f2.mem[f2.n].leaf[1])
                  IN [mem |-> d.mem, ret |-> d.ret]
             ELSE [mem |-> f2.mem, ret |-> f2.n]

\* eb_prev_node(node)
eb_prev_call(m, n) ==
  LET f == [mem |-> m, n |-> n]
      indup == f.mem[f.n].dup_p # f.n
      f1 == IF indup THEN [f EXCEPT !.n = f.mem[f.n].dup_p] ELSE f
  IN IF indup /\ f1.mem[f1.n].leaf_p = NULL THEN [mem |-> f1.mem, ret |-> f1.n]
     ELSE LET u == eb_walk_up_call(f1.mem, f1.n, 0, f1.mem[f1.n].leaf_p)
              f2 == [f1 EXCEPT !.mem = u.mem, !.n = u.ret]
          IN IF f2.n # NULL
             THEN LET d == eb_walk_down_call(f2.mem, f2.n, 1, f2.mem[f2.n].leaf[0])
                  IN [mem |-> d.mem, ret |-> d.ret]
             ELSE [mem |-> f2.mem, ret |-> f2.n]

\* -------------------------------------------------------------- insertion
\* the loop as it would be without the test of the common bits
RECURSIVE insert_walk_noprefix(_, _, _, _)
insert_walk_noprefix(m, x, root, next) ==
  IF m[next].leaf_p = root
  THEN [root |-> root, next |-> next, dup |-> (m[next].val = x)]
  ELSE insert_walk_noprefix(m, x, next, m[next].leaf[BitAt(x, m[next].bit - 1)])

\* the loop as it would be with the common bits tested one position too high
RECURSIVE insert_walk_high_shift(_, _, _, _)
insert_walk_high_shift(m, x, root, next) ==
  IF m[next].leaf_p = root
  THEN [root |-> root, next |-> next, dup |-> (m[next].val = x)]
  ELSE IF Shr(Xor(x, m[next].val), m[next].bit + 1) # Zero
       THEN [root |-> root, next |-> next, dup |-> FALSE]
       ELSE insert_walk_high_shift(m, x, next, m[next].leaf[BitAt(x, m[next].bit - 1)])

\* the while (1) loop of __eb32_insert: where it stops, and why
RECURSIVE insert_walk(_, _, _, _)
insert_walk(m, x, root, next) ==
  IF m[next].leaf_p = root
  THEN [root |-> root, next |-> next, dup |-> (m[next].val = x)]
  ELSE IF Shr(Xor(x, m[next].val), m[next].bit) # Zero
       THEN [root |-> root, next |-> next, dup |-> FALSE]
       ELSE insert_walk(m, x, next, m[next].leaf[BitAt(x, m[next].bit - 1)])

\* the new node becomes the only leaf of an empty root branch
insert_empty(m, root, new, x) ==
  LET m1 == [m EXCEPT ![root].leaf[BitAt(x, 31)] = new]
      m2 == [m1 EXCEPT ![new].leaf_p = root]
      m3 == LIST_INIT(m2, new)
  IN [m3 EXCEPT ![new].bit = 0]

\* the same with the bit of the new node left as it was
insert_dup_keep_bit(m, next, new) ==
  LET m1 == LIST_ADDQ(m, next, new)
  IN [m1 EXCEPT ![new].leaf_p = NULL]

\* the new node joins the duplicates of the leaf next
insert_dup(m, next, new) ==
  LET m1 == LIST_ADDQ(m, next, new)
      m2 == [m1 EXCEPT ![new].leaf_p = NULL]
  IN [m2 EXCEPT ![new].bit = 0]

\* the split as it would be with the bigger value put on the left
insert_split_swapped(m, root, next, new, x) ==
  LET m1 == [m EXCEPT ![new].link_p = root]
      m2 == [m1 EXCEPT ![new].leaf_p = new]
      m3 == [m2 EXCEPT ![new].bit = fls(Xor(x, m2[next].val))]
      m4 == [m3 EXCEPT ![new].val = x]
      l == IF Gt(x, m4[next].val) THEN 0 ELSE 1
      m5 == [m4 EXCEPT ![new].leaf[1 - l] = next]
      m6 == [m5 EXCEPT ![new].leaf[l] = new]
      m7 == LIST_INIT(m6, new)
      l2 == IF m7[root].leaf[1] = next THEN 1 ELSE 0
      m8 == [m7 EXCEPT ![root].leaf[l2] = new]
  IN IF m8[next].leaf_p = root
     THEN [m8 EXCEPT ![next].leaf_p = new]
     ELSE [m8 EXCEPT ![next].link_p = new]

\* the split as it would be with both children written into the same slot
insert_split_one_slot(m, root, next, new, x) ==
  LET m1 == [m EXCEPT ![new].link_p = root]
      m2 == [m1 EXCEPT ![new].leaf_p = new]
      m3 == [m2 EXCEPT ![new].bit = fls(Xor(x, m2[next].val))]
      m4 == [m3 EXCEPT ![new].val = x]
      l == IF Gt(x, m4[next].val) THEN 1 ELSE 0
      m5 == [m4 EXCEPT ![new].leaf[l] = next]
      m6 == [m5 EXCEPT ![new].leaf[l] = new]
      m7 == LIST_INIT(m6, new)
      l2 == IF m7[root].leaf[1] = next THEN 1 ELSE 0
      m8 == [m7 EXCEPT ![root].leaf[l2] = new]
  IN IF m8[next].leaf_p = root
     THEN [m8 EXCEPT ![next].leaf_p = new]
     ELSE [m8 EXCEPT ![next].link_p = new]

\* the split as it would be with the upward pointer of next left as it was
insert_split_no_reparent(m, root, next, new, x) ==
  LET m1 == [m EXCEPT ![new].link_p = root]
      m2 == [m1 EXCEPT ![new].leaf_p = new]
      m3 == [m2 EXCEPT ![new].bit = fls(Xor(x, m2[next].val))]
      m4 == [m3 EXCEPT ![new].val = x]
      l == IF Gt(x, m4[next].val) THEN 1 ELSE 0
      m5 == [m4 EXCEPT ![new].leaf[1 - l] = next]
      m6 == [m5 EXCEPT ![new].leaf[l] = new]
      m7 == LIST_INIT(m6, new)
      l2 == IF m7[root].leaf[1] = next THEN 1 ELSE 0
  IN [m7 EXCEPT ![root].leaf[l2] = new]

\* the new node's link is inserted between root and next
insert_split(m, root, next, new, x) ==
  LET m1 == [m EXCEPT ![new].link_p = root]
      m2 == [m1 EXCEPT ![new].leaf_p = new]
      m3 == [m2 EXCEPT ![new].bit = fls(Xor(x, m2[next].val))]
      m4 == [m3 EXCEPT ![new].val = x]
      l == IF Gt(x, m4[next].val) THEN 1 ELSE 0
      m5 == [m4 EXCEPT ![new].leaf[1 - l] = next]
      m6 == [m5 EXCEPT ![new].leaf[l] = new]
      m7 == LIST_INIT(m6, new)
      l2 == IF m7[root].leaf[1] = next THEN 1 ELSE 0
      m8 == [m7 EXCEPT ![root].leaf[l2] = new]
  IN IF m8[next].leaf_p = root
     THEN [m8 EXCEPT ![next].leaf_p = new]
     ELSE [m8 EXCEPT ![next].link_p = new]

\* the path an insertion takes: "empty", "dup" or "split"
insert_path(m, root, new) ==
  LET x == m[new].val
      next == m[root].leaf[BitAt(x, 31)]
  IN IF next = NULL THEN "empty"
     ELSE IF insert_walk(m, x, root, next).dup THEN "dup" ELSE "split"

eb32_insert(m, root, new) ==
  LET x == m[new].val
      next == m[root].leaf[BitAt(x, 31)]
  IN IF next = NULL THEN insert_empty(m, root, new, x)
     ELSE LET w == insert_walk(m, x, root, next)
          IN IF w.dup THEN insert_dup(m, w.next, new)
             ELSE insert_split(m, w.root, w.next, new, x)

\* --------------------------------------------------------------- deletion
\* replace_link as it would be if its last loop stopped after leaf[0]
replace_link_one_leaf(m, n, newlink) ==
  IF m[n].bit = 0 THEN [mem |-> m, ret |-> 1]
  ELSE
    LET m1 == [m EXCEPT ![newlink].link_p = m[n].link_p]
        m2 == [m1 EXCEPT ![newlink].leaf[0] = m1[n].leaf[0]]
        m3 == [m2 EXCEPT ![newlink].leaf[1] = m2[n].leaf[1]]
        m4 == [m3 EXCEPT ![newlink].bit = m3[n].bit]
        gparent == m4[n].link_p
        m5 == IF m4[gparent].leaf[0] = n
              THEN [m4 EXCEPT ![gparent].leaf[0] = newlink]
              ELSE [m4 EXCEPT ![gparent].leaf[1] = newlink]
        c0 == m5[newlink].leaf[0]
        m6 == IF m5[c0].leaf_p = n
              THEN [m5 EXCEPT ![c0].leaf_p = newlink]
              ELSE [m5 EXCEPT ![c0].link_p = newlink]
    IN [mem |-> m6, ret |-> 1]

\* replace_link as it would be if the grand parent kept its child pointer
replace_link_no_gparent(m, n, newlink) ==
  IF m[n].bit = 0 THEN [mem |-> m, ret |-> 1]
  ELSE
    LET m1 == [m EXCEPT ![newlink].link_p = m[n].link_p]
        m2 == [m1 EXCEPT ![newlink].leaf[0] = m1[n].leaf[0]]
        m3 == [m2 EXCEPT ![newlink].leaf[1] = m2[n].leaf[1]]
        m5 == [m3 EXCEPT ![newlink].bit = m3[n].bit]
        c0 == m5[newlink].leaf[0]
        m6 == IF m5[c0].leaf_p = n
              THEN [m5 EXCEPT ![c0].leaf_p = newlink]
              ELSE [m5 EXCEPT ![c0].link_p = newlink]
        c1 == m6[newlink].leaf[1]
        m7 == IF m6[c1].leaf_p = n
              THEN [m6 EXCEPT ![c1].leaf_p = newlink]
              ELSE [m6 EXCEPT ![c1].link_p = newlink]
    IN [mem |-> m7, ret |-> 1]

\* the code from the label replace_link on
replace_link(m, n, newlink) ==
  IF m[n].bit = 0 THEN [mem |-> m, ret |-> 1]
  ELSE
    LET m1 == [m EXCEPT ![newlink].link_p = m[n].link_p]
        m2 == [m1 EXCEPT ![newlink].leaf[0] = m1[n].leaf[0]]
        m3 == [m2 EXCEPT ![newlink].leaf[1] = m2[n].leaf[1]]
        m4 == [m3 EXCEPT ![newlink].bit = m3[n].bit]
        gparent == m4[n].link_p
        m5 == IF m4[gparent].leaf[0] = n
              THEN [m4 EXCEPT ![gparent].leaf[0] = newlink]
              ELSE [m4 EXCEPT ![gparent].leaf[1] = newlink]
        c0 == m5[newlink].leaf[0]
        m6 == IF m5[c0].leaf_p = n
              THEN [m5 EXCEPT ![c0].leaf_p = newlink]
              ELSE [m5 EXCEPT ![c0].link_p = newlink]
        c1 == m6[newlink].leaf[1]
        m7 == IF m6[c1].leaf_p = n
              THEN [m6 EXCEPT ![c1].leaf_p = newlink]
              ELSE [m6 EXCEPT ![c1].link_p = newlink]
    IN [mem |-> m7, ret |-> 1]

\* a duplicate that is not the head of its list
delete_dup(m, n) == [mem |-> LIST_DEL(m, n), ret |-> 1]

\* the same with the previous member of the list promoted instead of the next
delete_head_prev(m, n, parent) ==
  LET newlink == m[n].dup_p
      m1 == LIST_DEL(m, n)
      m2 == [m1 EXCEPT ![newlink].leaf_p = parent]
      l == IF m2[parent].leaf[1] = n THEN 1 ELSE 0
      m3 == [m2 EXCEPT ![parent].leaf[l] = newlink]
  IN replace_link(m3, n, newlink)

\* the head of a list of duplicates: the next member takes its place
delete_head(m, n, parent) ==
  LET newlink == m[n].dup_n
      m1 == LIST_DEL(m, n)
      m2 == [m1 EXCEPT ![newlink].leaf_p = parent]
      l == IF m2[parent].leaf[1] = n THEN 1 ELSE 0
      m3 == [m2 EXCEPT ![parent].leaf[l] = newlink]
  IN replace_link(m3, n, newlink)

\* the root case as it would be with the two branches mixed up
delete_root_other_side(m, n, parent) ==
  LET l == IF m[parent].leaf[1] = n THEN 0 ELSE 1
      m1 == [m EXCEPT ![parent].leaf[l] = NULL]
  IN [mem |-> m1, ret |-> IF m1[parent].leaf[1 - l] # NULL THEN 1 ELSE 0]

\* the root case as it would be if it tested the branch it has just emptied
delete_root_same_branch(m, n, parent) ==
  LET l == IF m[parent].leaf[1] = n THEN 1 ELSE 0
      m1 == [m EXCEPT ![parent].leaf[l] = NULL]
  IN [mem |-> m1, ret |-> IF m1[parent].leaf[l] # NULL THEN 1 ELSE 0]

\* a leaf attached to the root
delete_root(m, n, parent) ==
  LET l == IF m[parent].leaf[1] = n THEN 1 ELSE 0
      m1 == [m EXCEPT ![parent].leaf[l] = NULL]
  IN [mem |-> m1, ret |-> IF m1[parent].leaf[1 - l] # NULL THEN 1 ELSE 0]

\* the same with the sibling stored in the other slot of the grand parent
delete_release_other_slot(m, n, parent, gparent) ==
  LET sib == eb_sibling_with_parent(m, n, parent)
      m1 == IF m[sib].leaf_p = parent
            THEN [m EXCEPT ![sib].leaf_p = gparent]
            ELSE [m EXCEPT ![sib].link_p = gparent]
      l == IF m1[gparent].leaf[1] = parent THEN 0 ELSE 1
      m2 == [m1 EXCEPT ![gparent].leaf[l] = sib]
      m3 == [m2 EXCEPT ![parent].bit = 0]
  IN replace_link(m3, n, parent)

\* the same with the bit of the freed parent left as it was
delete_release_keep_bit(m, n, parent, gparent) ==
  LET sib == eb_sibling_with_parent(m, n, parent)
      m1 == IF m[sib].leaf_p = parent
            THEN [m EXCEPT ![sib].leaf_p = gparent]
            ELSE [m EXCEPT ![sib].link_p = gparent]
      l == IF m1[gparent].leaf[1] = parent THEN 1 ELSE 0
      m2 == [m1 EXCEPT ![gparent].leaf[l] = sib]
  IN replace_link(m2, n, parent)

\* the same with the upward pointer of the sibling left as it was
delete_release_no_reparent(m, n, parent, gparent) ==
  LET sib == eb_sibling_with_parent(m, n, parent)
      l == IF m[gparent].leaf[1] = parent THEN 1 ELSE 0
      m2 == [m EXCEPT ![gparent].leaf[l] = sib]
      m3 == [m2 EXCEPT ![parent].bit = 0]
  IN replace_link(m3, n, parent)

\* a leaf below a link: the sibling goes to the grand parent, the parent is freed
delete_release(m, n, parent, gparent) ==
  LET sib == eb_sibling_with_parent(m, n, parent)
      m1 == IF m[sib].leaf_p = parent
            THEN [m EXCEPT ![sib].leaf_p = gparent]
            ELSE [m EXCEPT ![sib].link_p = gparent]
      l == IF m1[gparent].leaf[1] = parent THEN 1 ELSE 0
      m2 == [m1 EXCEPT ![gparent].leaf[l] = sib]
      m3 == [m2 EXCEPT ![parent].bit = 0]
  IN replace_link(m3, n, parent)

\* the path a deletion takes: "dup", "head", "root" or "release"
delete_path(m, n) ==
  LET parent == m[n].leaf_p
  IN IF parent = NULL THEN "dup"
     ELSE IF m[n].dup_n # n THEN "head"
     ELSE IF m[parent].link_p = NULL THEN "root"
     ELSE "release"

eb_delete(m, n) ==
  LET parent == m[n].leaf_p
  IN IF parent = NULL THEN delete_dup(m, n)
     ELSE IF m[n].dup_n # n THEN delete_head(m, n, parent)
     ELSE IF m[parent].link_p = NULL THEN delete_root(m, n, parent)
     ELSE delete_release(m, n, parent, m[parent].link_p)

\* ------------------------------------------------------ multi-byte variant
\* ebmbtree.h is written for the tagged references of ebtree version 5: a
\* reference is the address of a struct eb_root (the root, or the branches of
\* a node, which are its first member) plus a tag in its lowest bit.
MBNodes == {2 * i : i \in 1..MaxMB}
MBRoot == 2 * (MaxMB + 1)
EB_LEFT == 0
EB_RGHT == 1
EB_LEAF == 0
EB_NODE == 1
eb_dotag(root, tag) == root + tag
eb_untag(troot, tag) == troot - tag
eb_gettag(troot) == troot % 2

\* the bytes the caller puts into keys, and the keys of KeyLen bytes
MBBytes == {0, 1, 128}
MBKeys == [1..KeyLen -> MBBytes]
\* key[] is the last member of struct ebmb_node and has no length of its own:
\* the byte stored right after the len bytes of a key belongs to whatever the
\* caller placed there. Its top bit is all that is ever read of it.
Pads == {0, 128}

\* struct eb_root as EB_ROOT (flag 0) or EB_ROOT_UNIQUE (flag 1) initialises it
MBTreeHead(flag) == [b |-> Pair(NULL, flag)]
\* the storage of an ebmb_node that was never inserted: whatever the memory
\* held, here references to the root and a negative bit
MBStaleNode == [b |-> Pair(MBRoot + 1, MBRoot + 1), node_p |-> MBRoot + 1,
                leaf_p |-> MBRoot + 1, bit |-> -1, key |-> [i \in 1..KeyLen |-> 0],
                pad |-> 0]

\* the bytes at node->key: the key, then the byte that follows it
KeyBytes(m, n) == Append(m[n].key, m[n].pad)
\* the same with the bits of a byte counted from its lowest bit
BitOf_low_first(a, pos) == (a[(pos \div 8) + 1] \div (2 ^ (pos % 8))) % 2

\* (a[pos >> 3] >> (~pos & 7)) & 1: bit pos of a, counted from the top bit of
\* the first byte
BitOf(a, pos) == (a[(pos \div 8) + 1] \div (2 ^ (7 - (pos % 8)))) % 2

\* the number of leading bits a and b have in common, the first ignore bits
\* being known to be equal, counted up to len bits
RECURSIVE equal_bits(_, _, _, _)
equal_bits(a, b, ignore, len) ==
  IF ignore >= len THEN ignore
  ELSE IF BitOf(a, ignore) # BitOf(b, ignore) THEN ignore
  ELSE equal_bits(a, b, ignore + 1, len)
\* -1, 0 or 1 as bit pos of a is below, equal to or above bit pos of b
cmp_bits(a, b, pos) == BitOf(a, pos) - BitOf(b, pos)
\* memcmp(a, b, len) == 0
SameKey(a, b, len) == \A i \in 1..len : a[i] = b[i]

\* one more duplicate above the tree of duplicates that starts at sub: the new
\* node takes the place of sub, keeps sub on its left and its own leaf on its
\* right
eb_insert_dup(m, sub, new) ==
  LET new_left == eb_dotag(new, EB_LEFT)
      new_rght == eb_dotag(new, EB_RGHT)
      new_leaf == eb_dotag(new, EB_LEAF)
      m1 == [m EXCEPT ![new].bit = m[sub].bit - 1]
      side == eb_gettag(m1[sub].node_p)
      head == eb_untag(m1[sub].node_p, side)
      m2 == [m1 EXCEPT ![head].b[side] = eb_dotag(new, EB_NODE)]
      m3 == [m2 EXCEPT ![new].node_p = m2[sub].node_p]
      m4 == [m3 EXCEPT ![new].leaf_p = new_rght]
      m5 == [m4 EXCEPT ![sub].node_p = new_left]
      m6 == [m5 EXCEPT ![new].b[EB_LEFT] = eb_dotag(sub, EB_NODE)]
  IN [m6 EXCEPT ![new].b[EB_RGHT] = new_leaf]

\* the inner loop of the lookup below a node of duplicates: down the left
\* branches to the first leaf
RECURSIVE ebmb_leftmost(_, _)
ebmb_leftmost(m, troot) ==
  IF eb_gettag(troot) # EB_LEAF
  THEN ebmb_leftmost(m, m[eb_untag(troot, EB_NODE)].b[EB_LEFT])
  ELSE eb_untag(troot, EB_LEAF)

\* the while (1) loop of __ebmb_lookup; x holds the bytes at the address x
RECURSIVE ebmb_lookup_loop(_, _, _, _, _)
ebmb_lookup_loop(m, x, len, troot, bit) ==
  IF eb_gettag(troot) = EB_LEAF
  THEN LET n == eb_untag(troot, EB_LEAF)
       IN IF SameKey(m[n].key, x, len) THEN n ELSE NULL
  ELSE LET n == eb_untag(troot, EB_NODE)
       IN IF m[n].bit < 0
          THEN IF ~SameKey(m[n].key, x, len) THEN NULL
               ELSE ebmb_leftmost(m, m[n].b[EB_LEFT])
          ELSE LET bit1 == equal_bits(x, KeyBytes(m, n), bit, m[n].bit)
               IN IF bit1 < m[n].bit THEN NULL
                  ELSE ebmb_lookup_loop(m, x, len, m[n].b[BitOf(x, m[n].bit)], bit1)

ebmb_lookup(m, root, x, len) ==
  LET troot == m[root].b[EB_LEFT]
  IN IF troot = NULL THEN NULL ELSE ebmb_lookup_loop(m, x, len, troot, 0)

\* the tree is empty: the new leaf goes below the left branch of the root
ebmb_insert_empty(m, root, new) ==
  LET m1 == [m EXCEPT ![root].b[EB_LEFT] = eb_dotag(new, EB_LEAF)]
      m2 == [m1 EXCEPT ![new].leaf_p = eb_dotag(root, EB_LEFT)]
      m3 == [m2 EXCEPT ![new].node_p = NULL]
  IN [mem |-> m3, ret |-> new, path |-> "empty"]

\* the end of __ebmb_insert: new is inserted between root and old
ebmb_insert_link(m, root, side, new, bit, path) ==
  LET m1 == [m EXCEPT ![new].bit = bit]
      m2 == [m1 EXCEPT ![root].b[side] = eb_dotag(new, EB_NODE)]
  IN [mem |-> m2, ret |-> new, path |-> path]

\* the descent has reached the leaf old
ebmb_insert_leaf(m, new, len, root_right, root, side, troot, bit0) ==
  LET old == eb_untag(troot, EB_LEAF)
      new_left == eb_dotag(new, EB_LEFT)
      new_rght == eb_dotag(new, EB_RGHT)
      new_leaf == eb_dotag(new, EB_LEAF)
      old_leaf == eb_dotag(old, EB_LEAF)
      m1 == [m EXCEPT ![new].node_p = m[old].leaf_p]
      bit == equal_bits(KeyBytes(m1, new), KeyBytes(m1, old), bit0, len)
      diff == cmp_bits(KeyBytes(m1, new), KeyBytes(m1, old), bit)
  IN IF diff < 0
     THEN LET m2 == [m1 EXCEPT ![new].leaf_p = new_left]
              m3 == [m2 EXCEPT ![old].leaf_p = new_rght]
              m4 == [m3 EXCEPT ![new].b[EB_LEFT] = new_leaf]
              m5 == [m4 EXCEPT ![new].b[EB_RGHT] = old_leaf]
          IN ebmb_insert_link(m5, root, side, new, bit, "leaf")
     ELSE IF diff = 0 /\ eb_gettag(root_right) # 0
          THEN [mem |-> m1, ret |-> old, path |-> "unique"]
          ELSE LET m2 == [m1 EXCEPT ![old].leaf_p = new_left]
                   m3 == [m2 EXCEPT ![new].leaf_p = new_rght]
                   m4 == [m3 EXCEPT ![new].b[EB_LEFT] = old_leaf]
                   m5 == [m4 EXCEPT ![new].b[EB_RGHT] = new_leaf]
               IN IF diff = 0
                  THEN LET m6 == [m5 EXCEPT ![new].bit = -1]
                           m7 == [m6 EXCEPT ![root].b[side] = eb_dotag(new, EB_NODE)]
                       IN [mem |-> m7, ret |-> new, path |-> "firstdup"]
                  ELSE ebmb_insert_link(m5, root, side, new, bit, "leaf")

\* the descent stops above the node old (the code from the label dup_tree on)
ebmb_insert_above(m, new, root, side, old, bit) ==
  LET new_left == eb_dotag(new, EB_LEFT)
      new_rght == eb_dotag(new, EB_RGHT)
      new_leaf == eb_dotag(new, EB_LEAF)
      old_node == eb_dotag(old, EB_NODE)
      m1 == [m EXCEPT ![new].node_p = m[old].node_p]
      diff == cmp_bits(KeyBytes(m1, new), KeyBytes(m1, old), bit)
  IN IF diff < 0
     THEN LET m2 == [m1 EXCEPT ![new].leaf_p = new_left]
              m3 == [m2 EXCEPT ![old].node_p = new_rght]
              m4 == [m3 EXCEPT ![new].b[EB_LEFT] = new_leaf]
              m5 == [m4 EXCEPT ![new].b[EB_RGHT] = old_node]
          IN ebmb_insert_link(m5, root, side, new, bit, "above")
     ELSE IF diff > 0
     THEN LET m2 == [m1 EXCEPT ![old].node_p = new_left]
              m3 == [m2 EXCEPT ![new].leaf_p = new_rght]
              m4 == [m3 EXCEPT ![new].b[EB_LEFT] = old_node]
              m5 == [m4 EXCEPT ![new].b[EB_RGHT] = new_leaf]
          IN ebmb_insert_link(m5, root, side, new, bit, "above")
     ELSE [mem |-> eb_insert_dup(m1, old, new), ret |-> new, path |-> "nextdup"]

\* the loop as it would be if it never stopped above an ordinary branch
RECURSIVE ebmb_insert_loop_noprefix(_, _, _, _, _, _, _, _)
ebmb_insert_loop_noprefix(m, new, len, root_right, root, side, troot, bit0) ==
  IF eb_gettag(troot) = EB_LEAF
  THEN ebmb_insert_leaf(m, new, len, root_right, root, side, troot, bit0)
  ELSE LET old == eb_untag(troot, EB_NODE)
       IN IF m[old].bit < 0
          THEN ebmb_insert_above(m, new, root, side, old,
                 equal_bits(KeyBytes(m, new), KeyBytes(m, old), bit0, len))
          ELSE LET side1 == BitOf(KeyBytes(m, new), m[old].bit)
               IN ebmb_insert_loop_noprefix(m, new, len, root_right, old, side1,
                                            m[old].b[side1], bit0)

\* the while (1) loop of __ebmb_insert; len is in bits here
RECURSIVE ebmb_insert_loop(_, _, _, _, _, _, _, _)
ebmb_insert_loop(m, new, len, root_right, root, side, troot, bit0) ==
  IF eb_gettag(troot) = EB_LEAF
  THEN ebmb_insert_leaf(m, new, len, root_right, root, side, troot, bit0)
  ELSE LET old == eb_untag(troot, EB_NODE)
           bit == IF m[old].bit < 0
                  THEN equal_bits(KeyBytes(m, new), KeyBytes(m, old), bit0, len)
                  ELSE IF bit0 < m[old].bit
                  THEN equal_bits(KeyBytes(m, new), KeyBytes(m, old), bit0, m[old].bit)
                  ELSE bit0
       IN IF m[old].bit < 0 \/ bit < m[old].bit
          THEN ebmb_insert_above(m, new, root, side, old, bit)
          ELSE LET side1 == BitOf(KeyBytes(m, new), m[old].bit)
               IN ebmb_insert_loop(m, new, len, root_right, old, side1,
                                   m[old].b[side1], bit)

ebmb_insert(m, root, new, len) ==
  LET troot == m[root].b[EB_LEFT]
      root_right == m[root].b[EB_RGHT]
  IN IF troot = NULL THEN ebmb_insert_empty(m, root, new)
     ELSE ebmb_insert_loop(m, new, len * 8, root_right, root, EB_LEFT, troot, 0)

\* walk down to the extreme leaf on one side, over tagged references
RECURSIVE mb_walk_down(_, _, _)
mb_walk_down(m, start, side) ==
  IF eb_gettag(start) = EB_NODE
  THEN mb_walk_down(m, m[eb_untag(start, EB_NODE)].b[side], side)
  ELSE eb_untag(start, EB_LEAF)
\* first: from the entry child of the root, down on the left
mb_first(m, root) ==
  IF m[root].b[EB_LEFT] = NULL THEN NULL
  ELSE mb_walk_down(m, m[root].b[EB_LEFT], EB_LEFT)
\* walk up as long as the subtree sits on the right of its parent
RECURSIVE mb_walk_up_right(_, _)
mb_walk_up_right(m, t) ==
  IF eb_gettag(t) # EB_LEFT
  THEN mb_walk_up_right(m, m[eb_untag(t, EB_RGHT)].node_p)
  ELSE t
\* next: up on the right, then down the left of the other branch
mb_next(m, n) ==
  LET t == mb_walk_up_right(m, m[n].leaf_p)
      r == m[eb_untag(t, EB_LEFT)].b[EB_RGHT]
  IN IF r - eb_gettag(r) = NULL THEN NULL ELSE mb_walk_down(m, r, EB_LEFT)

\* eb_delete of ebtree version 5, which ebmb_delete and __ebmb_delete call on
\* the eb_node at the start of the ebmb_node. A branch is unused when its
\* node_p is NULL (as __ebmb_insert leaves it below the root) and a node is
\* unused when its leaf_p is NULL; bit 0 is the bit of a branch whose two
\* subtrees differ in their first bit.
\* the end of the deletion: the node is marked unused
mb_delete_unlink(m, n, path) ==
  [mem |-> [m EXCEPT ![n].leaf_p = NULL], path |-> path]

\* the child on one side of the branch of donor is told its new parent
mb_delete_reparent(m, donor, side) ==
  LET c == m[donor].b[side]
  IN IF eb_gettag(c) = EB_NODE
     THEN [m EXCEPT ![eb_untag(c, EB_NODE)].node_p = eb_dotag(donor, side)]
     ELSE [m EXCEPT ![eb_untag(c, EB_LEAF)].leaf_p = eb_dotag(donor, side)]

\* the branch of the deleted node is in use: the freed parent takes its bit,
\* its two children and its place below its own parent
mb_delete_donate(m, n, parent) ==
  LET m1 == [m EXCEPT ![parent].node_p = m[n].node_p,
                      ![parent].b = m[n].b,
                      ![parent].bit = m[n].bit]
      gpside == eb_gettag(m1[parent].node_p)
      gparent == eb_untag(m1[parent].node_p, gpside)
      m2 == [m1 EXCEPT ![gparent].b[gpside] = eb_dotag(parent, EB_NODE)]
      m3 == mb_delete_reparent(m2, parent, EB_LEFT)
  IN mb_delete_reparent(m3, parent, EB_RGHT)

\* the leaf hangs below the branch parent on side pside: its sibling takes the
\* place of parent below the grandparent and the branch of parent is freed
mb_delete_release(m, n, parent, pside) ==
  LET gpside == eb_gettag(m[parent].node_p)
      gparent == eb_untag(m[parent].node_p, gpside)
      sib == m[parent].b[1 - pside]
      m1 == [m EXCEPT ![gparent].b[gpside] = sib]
      m2 == IF eb_gettag(sib) = EB_LEAF
            THEN [m1 EXCEPT ![eb_untag(sib, EB_LEAF)].leaf_p = eb_dotag(gparent, gpside)]
            ELSE [m1 EXCEPT ![eb_untag(sib, EB_NODE)].node_p = eb_dotag(gparent, gpside)]
      m3 == [m2 EXCEPT ![parent].node_p = NULL]
  IN IF m3[n].node_p = NULL
     THEN mb_delete_unlink(m3, n, "del_release")
     ELSE mb_delete_unlink(mb_delete_donate(m3, n, parent), n, "del_donate")

mb_eb_delete(m, n) ==
  IF m[n].leaf_p = NULL THEN [mem |-> m, path |-> "del_unlinked"]
  ELSE LET pside == eb_gettag(m[n].leaf_p)
           parent == eb_untag(m[n].leaf_p, pside)
           right == m[parent].b[EB_RGHT]
       IN IF right - eb_gettag(right) = NULL
          THEN mb_delete_unlink([m EXCEPT ![parent].b[EB_LEFT] = NULL], n, "del_root")
          ELSE mb_delete_release(m, n, parent, pside)

\* ebmb_delete(ebmb) and __ebmb_delete(ebmb): eb_delete(&ebmb->node), the
\* eb_node being the first member of the ebmb_node
ebmb_delete(m, ebmb) == mb_eb_delete(m, ebmb)

\* ---------------------------------------------------------------- actions
InTree == {order[i] : i \in DOMAIN order}

Remove(s, n) == SelectSeq(s, LAMBDA e : e # n)

\* fls was not used yet
NoFls == [x |-> Zero, y |-> Zero, arg |-> Zero, ret |-> 0]
\* no read-only call was made since the tree was last updated
NoCall == [op |-> "none", arg |-> NULL, ret |-> NULL]

Init ==
  /\ node = [p \in Ptrs |-> IF p = Root THEN TreeHead ELSE StaleNode]
  /\ order = <<>>
  /\ ret = -1
  /\ last = [op |-> "none", arg |-> NULL, path |-> "none", link |-> FALSE]
  /\ used = 0
  /\ ro = NoCall
  /\ znode = [p \in Ptrs |-> IF p = Root THEN TreeHead ELSE ZeroNode(Zero)]
  /\ zret = -1
  /\ flsv = NoFls
  /\ mb = [p \in MBNodes \cup {MBRoot} |->
            IF p = MBRoot THEN MBTreeHead(0) ELSE MBStaleNode]
  /\ mborder = <<>>
  /\ mblast = [arg |-> NULL, ret |-> NULL, path |-> "none"]
  /\ mbused = 0

\* the caller takes its next node object, sets new->val and calls
\* __eb32_insert(root, new)
Insert(n, x) ==
  /\ n \notin InTree
  /\ n = used + 1
  /\ used' = n
  /\ LET m == [node EXCEPT ![n].val = x]
     IN /\ node' = eb32_insert(m, Root, n)
        /\ last' = [op |-> "insert", arg |-> n, path |-> insert_path(m, Root, n),
                    link |-> FALSE]
  /\ order' = Append(order, n)
  /\ ro' = NoCall
  /\ UNCHANGED <<ret, znode, zret, flsv>>
  /\ UNCHANGED mbvars

\* the caller calls __eb_delete(node) on a node of the tree
Delete(n) ==
  /\ n \in InTree
  /\ LET r == eb_delete(node, n)
     IN /\ node' = r.mem
        /\ ret' = r.ret
  /\ last' = [op |-> "delete", arg |-> n, path |-> delete_path(node, n),
              link |-> /\ node[n].bit # 0
                       /\ \/ delete_path(node, n) = "head"
                          \/ delete_path(node, n) = "release" /\ node[n].leaf_p # n]
  /\ order' = Remove(order, n)
  /\ ro' = NoCall
  /\ UNCHANGED <<used, znode, zret, flsv>>
  /\ UNCHANGED mbvars

Next ==
  \/ \E n \in Nodes, x \in Keys : Insert(n, x)
  \/ \E n \in Nodes : Delete(n)

Spec == Init /\ [][Next]_vars

\* the read-only calls: each one is made on the tree as it is, with the heap
\* the function leaves behind becoming the heap
ReadOnly(op, arg, r) ==
  /\ node' = r.mem
  /\ ro' = [op |-> op, arg |-> arg, ret |-> r.ret]
  /\ UNCHANGED <<order, ret, last, used, znode, zret, flsv>>
  /\ UNCHANGED mbvars

\* the caller calls __eb32_lookup(root, x)
Lookup(x) == ReadOnly("lookup", x, eb32_lookup_call(node, Root, x))
\* the caller calls eb_first_node(root)
First == ReadOnly("first", NULL, eb_first_call(node, Root))
\* the caller calls eb_last_node(root)
Last == ReadOnly("last", NULL, eb_last_call(node, Root))
\* the caller calls eb_next_node(n) on a node of the tree
NextNode(n) == n \in InTree /\ ReadOnly("next", n, eb_next_call(node, n))
\* the caller calls eb_prev_node(n) on a node of the tree
PrevNode(n) == n \in InTree /\ ReadOnly("prev", n, eb_prev_call(node, n))

\* the tree with its read-only calls
NextRO ==
  \/ \E n \in 1..MaxRONodes, x \in Keys : Insert(n, x)
  \/ \E n \in 1..MaxRONodes : Delete(n)
  \/ \E x \in Queries : Lookup(x)
  \/ First
  \/ Last
  \/ \E n \in 1..MaxRONodes : NextNode(n)
  \/ \E n \in 1..MaxRONodes : PrevNode(n)

SpecRO == Init /\ [][NextRO]_vars

\* The same calls made on two heaps at once. On the first heap the caller sets
\* new->val only, so a node that was in the tree before comes back with the
\* fields its deletion left in it; on the second heap the caller zeroes the
\* node first. The caller inserts a node it has deleted, or the first of the
\* nodes it has not used yet.
InsertBoth(n, x) ==
  /\ n \notin InTree
  /\ used < MaxZInserts
  /\ \A k \in 1..(n - 1) : node[k] # StaleNode
  /\ LET m == [node EXCEPT ![n].val = x]
         z == [znode EXCEPT ![n] = ZeroNode(x)]
     IN /\ node' = eb32_insert(m, Root, n)
        /\ znode' = eb32_insert(z, Root, n)
        /\ last' = [op |-> "insert", arg |-> n, path |-> insert_path(m, Root, n),
                    link |-> FALSE, again |-> node[n] # StaleNode]
  /\ order' = Append(order, n)
  /\ used' = used + 1
  /\ ro' = NoCall
  /\ UNCHANGED <<ret, zret, flsv>>
  /\ UNCHANGED mbvars

DeleteBoth(n) ==
  /\ n \in InTree
  /\ LET r == eb_delete(node, n)
         z == eb_delete(znode, n)
     IN /\ node' = r.mem
        /\ ret' = r.ret
        /\ znode' = z.mem
        /\ zret' = z.ret
  /\ last' = [op |-> "delete", arg |-> n, path |-> delete_path(node, n),
              link |-> /\ node[n].bit # 0
                       /\ \/ delete_path(node, n) = "head"
                          \/ delete_path(node, n) = "release" /\ node[n].leaf_p # n]
  /\ order' = Remove(order, n)
  /\ ro' = NoCall
  /\ UNCHANGED <<used, flsv>>
  /\ UNCHANGED mbvars

NextZ ==
  \/ \E n \in 1..MaxZNodes, x \in Keys : InsertBoth(n, x)
  \/ \E n \in 1..MaxZNodes : DeleteBoth(n)

SpecZ == Init /\ [][NextZ]_vars

\* fls as __eb32_insert uses it: new->node.bit = fls(x ^ next->val), where x is
\* the new key and next->val a different value, both chosen at the start
InitFls ==
  /\ node = [p \in Ptrs |-> IF p = Root THEN TreeHead ELSE StaleNode]
  /\ order = <<>>
  /\ ret = -1
  /\ last = [op |-> "none", arg |-> NULL, path |-> "none", link |-> FALSE]
  /\ used = 0
  /\ ro = NoCall
  /\ znode = [p \in Ptrs |-> IF p = Root THEN TreeHead ELSE ZeroNode(Zero)]
  /\ zret = -1
  /\ \E x \in FlsValues, y \in FlsValues :
       /\ x # y
       /\ flsv = [x |-> x, y |-> y, arg |-> Zero, ret |-> 0]
  /\ mb = [p \in MBNodes \cup {MBRoot} |->
            IF p = MBRoot THEN MBTreeHead(0) ELSE MBStaleNode]
  /\ mborder = <<>>
  /\ mblast = [arg |-> NULL, ret |-> NULL, path |-> "none"]
  /\ mbused = 0

FlsXor ==
  /\ flsv.ret = 0
  /\ flsv' = [flsv EXCEPT !.arg = Xor(flsv.x, flsv.y),
                          !.ret = fls(Xor(flsv.x, flsv.y))]
  /\ UNCHANGED <<node, order, ret, last, used, ro, znode, zret>>
  /\ UNCHANGED mbvars

NextFls == FlsXor

SpecFls == InitFls /\ [][NextFls]_vars

\* the multi-byte tree: the root is EB_ROOT or EB_ROOT_UNIQUE
InitMB ==
  /\ node = [p \in Ptrs |-> IF p = Root THEN TreeHead ELSE StaleNode]
  /\ order = <<>>
  /\ ret = -1
  /\ last = [op |-> "none", arg |-> NULL, path |-> "none", link |-> FALSE]
  /\ used = 0
  /\ ro = NoCall
  /\ znode = [p \in Ptrs |-> IF p = Root THEN TreeHead ELSE ZeroNode(Zero)]
  /\ zret = -1
  /\ flsv = NoFls
  /\ \E flag \in {0, 1} :
       mb = [p \in MBNodes \cup {MBRoot} |->
               IF p = MBRoot THEN MBTreeHead(flag) ELSE MBStaleNode]
  /\ mborder = <<>>
  /\ mblast = [arg |-> NULL, ret |-> NULL, path |-> "none"]
  /\ mbused = 0

\* the ebmb nodes the caller has passed to __ebmb_insert at least once
MBUsed == {n \in MBNodes : mb[n] # MBStaleNode}

\* the caller takes an ebmb_node that is not in the tree (one it used before,
\* or the next of those it never used), copies a key into new->key and calls
\* __ebmb_insert(root, new, KeyLen); pad is the byte its storage holds after
\* the key
MBInsert(n, k, pad) ==
  /\ n \notin {mborder[i] : i \in DOMAIN mborder}
  /\ mbused < MaxMBCalls
  /\ \A j \in MBNodes : j < n => j \in MBUsed
  /\ mbused' = mbused + 1
  /\ LET m == [mb EXCEPT ![n].key = k, ![n].pad = pad]
         r == ebmb_insert(m, MBRoot, n, KeyLen)
     IN /\ mb' = r.mem
        /\ mblast' = [arg |-> n, ret |-> r.ret, path |-> r.path]
        /\ mborder' = IF r.ret = n THEN Append(mborder, n) ELSE mborder
  /\ UNCHANGED intvars

\* ebmb_delete(n) or __ebmb_delete(n), for a node of the tree or a node that
\* was deleted (whose leaf_p is NULL)
MBDelete(n) ==
  /\ n \in {mborder[i] : i \in DOMAIN mborder} \/ mb[n].leaf_p = NULL
  /\ LET r == ebmb_delete(mb, n)
     IN /\ mb' = r.mem
        /\ mblast' = [arg |-> n, ret |-> NULL, path |-> r.path]
  /\ mborder' = Remove(mborder, n)
  /\ mbused < MaxMBCalls
  /\ mbused' = mbused + 1
  /\ UNCHANGED intvars

NextMB ==
  \/ \E n \in MBNodes, k \in MBKeys, pad \in Pads : MBInsert(n, k, pad)
  \/ \E n \in MBNodes : MBDelete(n)

SpecMB == InitMB /\ [][NextMB]_vars

\* ------------------------------------------------- what the claims speak of
val(n) == node[n].val

\* first, next, next, ... until NULL (at most MaxNodes + 1 nodes are listed)
RECURSIVE WalkNext(_, _)
WalkNext(n, fuel) ==
  IF n = NULL \/ fuel = 0 THEN <<>>
  ELSE <<n>> \o WalkNext(eb_next_node(node, n), fuel - 1)
Forward == WalkNext(eb_first_node(node, Root), MaxNodes + 1)

\* last, prev, prev, ... until NULL
RECURSIVE WalkPrev(_, _)
WalkPrev(n, fuel) ==
  IF n = NULL \/ fuel = 0 THEN <<>>
  ELSE <<n>> \o WalkPrev(eb_prev_node(node, n), fuel - 1)
Backward == WalkPrev(eb_last_node(node, Root), MaxNodes + 1)

Reverse(s) == [i \in 1..Len(s) |-> s[Len(s) + 1 - i]]
Range(s) == {s[i] : i \in DOMAIN s}

\* the nodes of the tree that carry key x, in the order of their insertion
WithKey(x) == SelectSeq(order, LAMBDA n : val(n) = x)
KeysInTree == {val(n) : n \in InTree}
HasDups == \E a, b \in InTree : a # b /\ val(a) = val(b)
HasHigh == \E a \in InTree : (INTBITS - 1) \in val(a)
HasLow == \E a \in InTree : (INTBITS - 1) \notin val(a)

\* the leaves reached from child c of link par
RECURSIVE LeavesBelow(_, _)
LeavesBelow(par, c) ==
  IF c = NULL THEN {}
  ELSE IF node[c].leaf_p = par THEN {c}
  ELSE LeavesBelow(c, node[c].leaf[0]) \cup LeavesBelow(c, node[c].leaf[1])
\* the links in use: the root and the nodes of the tree whose bit is not 0
Links == {Root} \cup {n \in InTree : node[n].bit # 0}
\* the members of the list of duplicates a leaf heads
RECURSIVE DupsFrom(_, _, _)
DupsFrom(h, n, fuel) ==
  IF fuel = 0 \/ n = h THEN {h}
  ELSE {n} \cup DupsFrom(h, node[n].dup_n, fuel - 1)
DupList(h) == DupsFrom(h, node[h].dup_n, MaxNodes)


\* C1: first/next visits every node of the tree exactly once, duplicates
\* included, and the keys it meets never decrease.
C1_ForwardSorted ==
  LET f == Forward
  IN /\ Len(f) = Len(order)
     /\ Range(f) = InTree
     /\ \A i \in 1..(Len(f) - 1) : Le(val(f[i]), val(f[i + 1]))
C1_Witness ==
  /\ last.op = "delete"
  /\ Len(order) = 3
  /\ HasDups /\ HasHigh /\ HasLow
  /\ Len(Forward) = 3

\* C2: the nodes that carry one key are enumerated by first/next in the order
\* of their insertion, also after the head of their list was deleted.
C2_DupOrder ==
  LET f == Forward
  IN \A x \in KeysInTree : SelectSeq(f, LAMBDA n : val(n) = x) = WithKey(x)
C2_Witness ==
  /\ last.op = "delete" /\ last.path = "head"
  /\ \E x \in KeysInTree :
       /\ Len(WithKey(x)) = 2
       /\ node[WithKey(x)[1]].leaf_p # NULL
       /\ SelectSeq(Forward, LAMBDA n : val(n) = x) = WithKey(x)

\* C3: last/prev yields the exact reverse of what first/next yields.
C3_BackwardIsReverse == Backward = Reverse(Forward)

\* C4: lookup returns NULL iff no node of the tree carries x, and otherwise
\* the earliest inserted node of the tree that carries x.
C4_Lookup ==
  \A x \in Queries :
    LET r == eb32_lookup(node, Root, x)
    IN IF WithKey(x) = <<>> THEN r = NULL ELSE r = WithKey(x)[1]
C4_Witness ==
  /\ last.op = "delete" /\ last.path = "head"
  /\ Len(order) = 3
  /\ \E x \in KeysInTree :
       /\ Len(WithKey(x)) = 2
       /\ eb32_lookup(node, Root, x) = WithKey(x)[1]
  /\ \E x \in Queries : x \notin KeysInTree /\ eb32_lookup(node, Root, x) = NULL

\* the fields of p that refer to n
RefersTo(p, n) ==
  \/ node[p].leaf[0] = n \/ node[p].leaf[1] = n
  \/ node[p].leaf_p = n \/ node[p].link_p = n
  \/ node[p].dup_n = n \/ node[p].dup_p = n
\* the same, over the fields of p that are in use: the link part (leaf[] and
\* link_p) counts only for the root and for a node whose bit is not 0
LiveRefersTo(p, n) ==
  \/ node[p].leaf_p = n
  \/ node[p].dup_n = n \/ node[p].dup_p = n
  \/ /\ (p = Root \/ node[p].bit # 0)
     /\ (node[p].leaf[0] = n \/ node[p].leaf[1] = n \/ node[p].link_p = n)

\* C5 as stated: after __eb_delete(n) no field of the root or of a node of the
\* tree refers to n.
C5_NoReference ==
  last.op = "delete" => \A p \in InTree \cup {Root} : ~RefersTo(p, last.arg)
\* C5 as amended: after __eb_delete(n) no field in use of the root or of a node
\* of the tree refers to n (leaf_p, dup.n, dup.p of every node; leaf[0], leaf[1]
\* and link_p of the root and of the nodes whose bit is not 0).
C5_NoLiveReference ==
  last.op = "delete" => \A p \in InTree \cup {Root} : ~LiveRefersTo(p, last.arg)
C5_Witness ==
  /\ last.op = "delete" /\ last.path = "head" /\ last.link
  /\ Len(order) = 3
  /\ \A p \in InTree \cup {Root} : ~LiveRefersTo(p, last.arg)

\* C6: once every inserted node is deleted again, the root is as it was
\* initialised and first and last return NULL.
C6_EmptyAgain ==
  order = <<>> =>
    /\ node[Root].leaf[0] = NULL /\ node[Root].leaf[1] = NULL
    /\ node[Root] = TreeHead
    /\ eb_first_node(node, Root) = NULL
    /\ eb_last_node(node, Root) = NULL
C6_Witness ==
  /\ order = <<>> /\ last.op = "delete" /\ used = MaxNodes
  /\ node[Root] = TreeHead
  /\ eb_first_node(node, Root) = NULL

\* C7: __eb_delete returns zero iff no node remains in the tree.
C7_DeleteReturn ==
  last.op = "delete" => (ret = 0 <=> order = <<>>)
C7_Witness ==
  /\ last.op = "delete" /\ last.path = "root"
  /\ ret # 0 /\ order # <<>>
  /\ (INTBITS - 1) \in val(last.arg)

\* C8: below every link in use B, the keys of the leaves reached through
\* leaf[0] have bit B.bit - 1 clear and those reached through leaf[1] have it set.
C8_Radix ==
  \A b \in Links : \A s \in {0, 1} :
    \A n \in LeavesBelow(b, node[b].leaf[s]) : BitAt(val(n), node[b].bit - 1) = s
C8_Witness ==
  /\ last.op = "delete" /\ last.link
  /\ Cardinality(Links) = 3
  /\ \E b \in Links \ {Root} : Cardinality(LeavesBelow(b, node[b].leaf[0])) = 2
  /\ \A b \in Links : \A s \in {0, 1} :
       \A n \in LeavesBelow(b, node[b].leaf[s]) : BitAt(val(n), node[b].bit - 1) = s

\* C9: the bit of every link in use is strictly less than the bit of its
\* link parent.
C9_BitsDecrease ==
  \A b \in Links \ {Root} :
    /\ node[b].link_p \in Links
    /\ node[b].bit < node[node[b].link_p].bit
C9_Witness ==
  /\ last.op = "delete" /\ last.path = "release" /\ last.link
  /\ \E b \in Links \ {Root} :
       /\ node[b].link_p \in Links \ {Root}
       /\ node[b].bit < node[node[b].link_p].bit

\* C10: the nodes that carry one key form one circular doubly linked list;
\* exactly one of them has a leaf_p, and it is the one reached from the root;
\* the others have leaf_p = NULL and bit = 0.
C10_DupLists ==
  LET leaves == LeavesBelow(Root, node[Root].leaf[0])
                \cup LeavesBelow(Root, node[Root].leaf[1])
  IN /\ \A n \in InTree :
          /\ node[n].dup_n \in InTree /\ node[n].dup_p \in InTree
          /\ node[node[n].dup_n].dup_p = n
          /\ node[node[n].dup_p].dup_n = n
          /\ DupList(n) = {k \in InTree : val(k) = val(n)}
          /\ node[n].leaf_p = NULL => node[n].bit = 0
     /\ \A x \in KeysInTree :
          /\ Cardinality({n \in InTree : val(n) = x /\ node[n].leaf_p # NULL}) = 1
          /\ Cardinality({n \in leaves : val(n) = x}) = 1
     /\ leaves = {n \in InTree : node[n].leaf_p # NULL}
C10_Witness ==
  /\ last.op = "delete" /\ last.path = "head"
  /\ \E n \in InTree :
       /\ Cardinality(DupList(n)) = 2
       /\ node[n].leaf_p # NULL
       /\ node[node[n].dup_n].leaf_p = NULL
       /\ node[node[n].dup_n].dup_n = n
  /\ HasLow /\ HasHigh

\* the child slots of link b that hold c
SlotsOf(b, c) == {s \in {0, 1} : node[b].leaf[s] = c}
\* the leaves that head a list of duplicates: the nodes of the tree with a leaf_p
Heads == {n \in InTree : node[n].leaf_p # NULL}

\* C11: downward and upward pointers agree. Every non-NULL child c of a link
\* in use B is reached either as a leaf (c.leaf_p = B) or as a link (c.bit # 0
\* and c.link_p = B), never both; every leaf is in exactly one child slot of
\* its leaf_p and every link in use in exactly one child slot of its link_p.
C11_UpDownAgree ==
  /\ \A b \in Links : \A s \in {0, 1} :
       LET c == node[b].leaf[s]
       IN c # NULL =>
            /\ c \in InTree
            /\ (node[c].leaf_p = b) # (node[c].bit # 0 /\ node[c].link_p = b)
  /\ \A n \in Heads :
       /\ node[n].leaf_p \in Links
       /\ Cardinality(SlotsOf(node[n].leaf_p, n)) = 1
  /\ \A n \in Links \ {Root} :
       /\ node[n].link_p \in Links
       /\ Cardinality(SlotsOf(node[n].link_p, n)) = 1
C11_Witness ==
  /\ last.op = "delete" /\ last.link
  /\ Cardinality(Links) = 3
  /\ \E b \in Links \ {Root} : \E s \in {0, 1} :
       LET c == node[b].leaf[s]
       IN /\ c # b /\ c # NULL
          /\ node[c].bit # 0 /\ node[c].link_p = b /\ node[c].leaf_p # b
  /\ \E n \in Heads : node[n].leaf_p = n /\ SlotsOf(n, n) # {}


\* C12: every link in use other than the root has two children that are two
\* different nodes of the tree; only the root may have a NULL child, and both
\* of its children are NULL only when the tree is empty.
C12_TwoChildren ==
  /\ \A b \in Links \ {Root} :
       /\ node[b].leaf[0] \in InTree /\ node[b].leaf[1] \in InTree
       /\ node[b].leaf[0] # node[b].leaf[1]
  /\ (node[Root].leaf[0] = NULL /\ node[Root].leaf[1] = NULL) => order = <<>>
C12_Witness ==
  /\ last.op = "delete" /\ last.path = "release"
  /\ Cardinality(Links) = 3
  /\ node[Root].leaf[1] = NULL /\ node[Root].leaf[0] # NULL
  /\ \A b \in Links \ {Root} :
       /\ node[b].leaf[0] \in InTree /\ node[b].leaf[1] \in InTree
       /\ node[b].leaf[0] # node[b].leaf[1]


\* ------------------------------------------------ the multi-byte claims
MBInTree == {mborder[i] : i \in DOMAIN mborder}
MBUnique == eb_gettag(mb[MBRoot].b[EB_RGHT]) # 0
\* the nodes of the tree that carry key k, in the order of their insertion
MBWithKey(k) == SelectSeq(mborder, LAMBDA n : mb[n].key = k)
MBKeysInTree == {mb[n].key : n \in MBInTree}
\* the ebmb nodes the caller may pass to __ebmb_insert: those not in the tree
MBFresh == MBNodes \ MBInTree
\* the call __ebmb_insert(root, n, KeyLen) with key k in n, made in this state
MBCall(n, k, pad) ==
  ebmb_insert([mb EXCEPT ![n].key = k, ![n].pad = pad], MBRoot, n, KeyLen)

\* C13: the root has the uniqueness flag and a node with the key of new is in
\* the tree: __ebmb_insert returns that node, does not link new, and changes
\* no field of the root or of a node of the tree.
C13_UniqueRefuses ==
  MBUnique =>
    \A n \in MBFresh : \A k \in MBKeysInTree : \A pad \in Pads :
      LET r == MBCall(n, k, pad)
      IN /\ r.ret \in MBInTree
         /\ mb[r.ret].key = k
         /\ \A p \in MBInTree \cup {MBRoot} : r.mem[p] = mb[p]


\* the leaves below a tagged reference, from left to right
RECURSIVE MBLeaves(_)
MBLeaves(troot) ==
  IF troot = NULL THEN <<>>
  ELSE IF eb_gettag(troot) = EB_LEAF THEN <<eb_untag(troot, EB_LEAF)>>
  ELSE MBLeaves(mb[eb_untag(troot, EB_NODE)].b[EB_LEFT])
       \o MBLeaves(mb[eb_untag(troot, EB_NODE)].b[EB_RGHT])
MBInOrder == MBLeaves(mb[MBRoot].b[EB_LEFT])
\* first, next, next, ... until NULL
RECURSIVE MBWalkNext(_, _)
MBWalkNext(n, fuel) ==
  IF n = NULL \/ fuel = 0 THEN <<>>
  ELSE <<n>> \o MBWalkNext(mb_next(mb, n), fuel - 1)
MBForward == MBWalkNext(mb_first(mb, MBRoot), MaxMB + 1)
\* a < b, byte by byte, the bytes compared as unsigned
LexLess(a, b) ==
  \E i \in 1..KeyLen : a[i] < b[i] /\ \A j \in 1..(i - 1) : a[j] = b[j]
\* no two nodes of the tree carry the same key
MBDistinct ==
  \A i, j \in DOMAIN mborder : i # j => mb[mborder[i]].key # mb[mborder[j]].key

\* C14: after insertions of pairwise distinct keys of KeyLen bytes, in any
\* order, the leaves from left to right (which is the order of first/next) are
\* in the lexicographic order of their keys, bytes compared as unsigned. The
\* same holds of every tree whose nodes carry pairwise distinct keys, whatever
\* was deleted from it before.
C14_LexOrder ==
  MBDistinct =>
    LET f == MBInOrder
    IN /\ Len(f) = Len(mborder)
       /\ {f[i] : i \in DOMAIN f} = MBInTree
       /\ \A i \in 1..(Len(f) - 1) : LexLess(mb[f[i]].key, mb[f[i + 1]].key)
       /\ MBForward = f
C14_Witness ==
  /\ MBDistinct /\ Len(mborder) = MaxMB
  /\ LexLess(mb[mborder[3]].key, mb[mborder[2]].key)
  /\ LexLess(mb[mborder[2]].key, mb[mborder[4]].key)
  /\ \E n \in MBInTree : mb[n].key[1] = 128
  /\ \E n \in MBInTree : mb[n].key[1] = 1
  /\ \E a, b \in MBInTree : a # b /\ mb[a].key[1] = mb[b].key[1]
  /\ \A i \in 1..(Len(MBInOrder) - 1) :
       LexLess(mb[MBInOrder[i]].key, mb[MBInOrder[i + 1]].key)


\* the bytes at the address a lookup is given: the key looked for and the
\* byte that follows it
MBQueries == {Append(k, pad) : k \in MBKeys, pad \in Pads}
QueryKey(x) == [i \in 1..KeyLen |-> x[i]]

\* C15: __ebmb_lookup returns NULL iff no node of the tree carries the key
\* looked for, and otherwise the first inserted of the nodes that carry it.
C15_Lookup ==
  \A x \in MBQueries :
    LET r == ebmb_lookup(mb, MBRoot, x, KeyLen)
        w == MBWithKey(QueryKey(x))
    IN IF w = <<>> THEN r = NULL ELSE r = w[1]


\* the nodes reached as branches below a tagged reference
RECURSIVE MBBranchesBelow(_)
MBBranchesBelow(troot) ==
  IF troot = NULL \/ eb_gettag(troot) = EB_LEAF THEN {}
  ELSE LET n == eb_untag(troot, EB_NODE)
       IN {n} \cup MBBranchesBelow(mb[n].b[EB_LEFT]) \cup MBBranchesBelow(mb[n].b[EB_RGHT])
MBBranches == MBBranchesBelow(mb[MBRoot].b[EB_LEFT])
\* the leaves below one side of the branch n
MBLeafSet(n, side) ==
  LET f == MBLeaves(mb[n].b[side]) IN {f[i] : i \in DOMAIN f}

\* C16: the uniqueness flag is clear. A branch has a negative bit only if all
\* the leaves below it carry the same key; two leaves that carry the same key
\* have a branch with a negative bit as their lowest common ancestor; the first
\* duplicate of a leaf becomes a branch with bit -1, the old leaf on its left
\* and its own leaf on its right.
C16_DupSubtrees ==
  ~MBUnique =>
    /\ \A n \in MBBranches :
         mb[n].bit < 0 =>
           \A a, b \in MBLeafSet(n, EB_LEFT) \cup MBLeafSet(n, EB_RGHT) :
             mb[a].key = mb[b].key
    /\ \A n \in MBBranches :
         \A a \in MBLeafSet(n, EB_LEFT) : \A b \in MBLeafSet(n, EB_RGHT) :
           mb[a].key = mb[b].key => mb[n].bit < 0
    /\ \A n \in MBInTree :
         LET w == MBWithKey(mb[n].key)
         IN (Len(w) = 2 /\ n = w[2] /\ mblast.arg = n) =>
              /\ n \in MBBranches
              /\ mb[n].bit = -1
              /\ mb[n].b[EB_LEFT] = eb_dotag(w[1], EB_LEAF)
              /\ mb[n].b[EB_RGHT] = eb_dotag(n, EB_LEAF)


\* the branches that are children of the branch p
MBChildBranches(p) ==
  {eb_untag(mb[p].b[s], EB_NODE) : s \in {t \in {0, 1} : eb_gettag(mb[p].b[t]) = EB_NODE}}

\* C17 as stated: the bit of a branch is strictly less than the bit of the
\* branch above it.
C17_BitsDecrease ==
  \A p \in MBBranches : \A c \in MBChildBranches(p) : mb[c].bit < mb[p].bit
\* C17 as amended: the bit of a branch is the number of leading bits its two
\* subtrees share, so a branch with a bit >= 0 has a bit strictly greater than
\* the bit of the branch above it, which is >= 0 too: along every path from
\* the root the bits >= 0 strictly increase, and the branches with a negative
\* bit come after them.
C17_BitsIncrease ==
  \A p \in MBBranches : \A c \in MBChildBranches(p) :
    mb[c].bit >= 0 => (mb[p].bit >= 0 /\ mb[p].bit < mb[c].bit)
C17_Witness ==
  /\ mblast.path = "above"
  /\ Len(mborder) = MaxMB
  /\ \E p \in MBBranches : \E c \in MBChildBranches(p) :
       /\ mb[p].bit >= 0 /\ mb[p].bit < 8 /\ mb[c].bit >= 8
       /\ \E d \in MBChildBranches(c) : mb[d].bit > mb[c].bit


\* a lookup without shortcuts: down to a leaf by the bits of x, then one
\* comparison
RECURSIVE PlainLookup(_, _)
PlainLookup(parent, x) ==
  LET r == node[parent].leaf[BitAt(x, node[parent].bit - 1)]
  IN IF r = NULL THEN NULL
     ELSE IF node[r].leaf_p = parent
          THEN (IF node[r].val = x THEN r ELSE NULL)
     ELSE PlainLookup(r, x)

\* C18: for every query, __eb32_lookup with its two shortcuts returns what the
\* lookup without shortcuts returns.
C18_Shortcuts ==
  \A x \in Queries : eb32_lookup(node, Root, x) = PlainLookup(Root, x)
C18_Witness ==
  /\ last.op = "delete" /\ last.link
  /\ \E x \in Queries :
       /\ lookup_exit(node, Root, x) = "equal"
       /\ eb32_lookup(node, Root, x) = PlainLookup(Root, x)
       /\ node[PlainLookup(Root, x)].leaf_p # PlainLookup(Root, x)
  /\ \E x \in Queries :
       /\ lookup_exit(node, Root, x) = "diverge"
       /\ PlainLookup(Root, x) = NULL


\* the nodes stored beneath the link b: the leaves below it and their duplicates
Beneath(b) ==
  LET l == LeavesBelow(b, node[b].leaf[0]) \cup LeavesBelow(b, node[b].leaf[1])
  IN UNION {DupList(n) : n \in l}

\* C19: every key stored beneath a link in use other than the root agrees with
\* the val of the node that lends the link on all the bits from bit on, also
\* when the link was taken over in __eb_delete.
C19_Prefix ==
  \A b \in Links \ {Root} : \A n \in Beneath(b) :
    Shr(Xor(val(n), val(b)), node[b].bit) = Zero
C19_Witness ==
  /\ last.op = "delete" /\ last.path = "release" /\ last.link
  /\ \E b \in Links \ {Root} :
       /\ node[b].leaf_p # b
       /\ Cardinality(Beneath(b)) = 3
       /\ \E n \in Beneath(b) : val(n) # val(b)
       /\ \A n \in Beneath(b) : Shr(Xor(val(n), val(b)), node[b].bit) = Zero


\* first, next, next, ... until NULL, in the heap m
RECURSIVE WalkNextIn(_, _, _)
WalkNextIn(m, n, fuel) ==
  IF n = NULL \/ fuel = 0 THEN <<>>
  ELSE <<n>> \o WalkNextIn(m, eb_next_node(m, n), fuel - 1)
ForwardIn(m) == WalkNextIn(m, eb_first_node(m, Root), MaxNodes + 1)
\* __eb_delete(n) reaches replace_link with n->bit != 0: the link of n is still
\* in use once its leaf is detached
Donates(m, n) ==
  /\ m[n].bit # 0
  /\ \/ delete_path(m, n) = "head"
     \/ delete_path(m, n) = "release" /\ m[n].leaf_p # n
\* the node that takes the link over: the promoted duplicate or the freed parent
DonorOf(m, n) == IF delete_path(m, n) = "head" THEN m[n].dup_n ELSE m[n].leaf_p
\* c names d as its parent through leaf_p or, its link being in use, link_p
UpTo(m, c, d) == {f \in {"leaf_p", "link_p"} :
                    \/ f = "leaf_p" /\ m[c].leaf_p = d
                    \/ f = "link_p" /\ m[c].bit # 0 /\ m[c].link_p = d}

\* C20: when __eb_delete(n) reaches replace_link with n->bit != 0, the donor
\* ends with the bit, leaf[0], leaf[1] and link_p of n; the slot of that link_p
\* which held n holds the donor; both children name the donor, and not n, as
\* their parent; the nodes and keys of the tree are those of before, less n.
C20_Donation ==
  \A n \in InTree :
    Donates(node, n) =>
      LET r == eb_delete(node, n).mem
          d == DonorOf(node, n)
          gp == node[n].link_p
      IN /\ d # n /\ d \in InTree
         /\ r[d].bit = r[n].bit /\ r[d].bit # 0
         /\ r[d].leaf = r[n].leaf
         /\ r[d].link_p = r[n].link_p /\ r[d].link_p = gp
         /\ \A s \in {0, 1} : node[gp].leaf[s] = n => r[gp].leaf[s] = d
         /\ \A s \in {0, 1} : node[gp].leaf[s] # n => r[gp].leaf[s] # d
         /\ \A s \in {0, 1} :
              LET c == r[d].leaf[s]
              IN /\ c \in InTree \ {n}
                 /\ Cardinality(UpTo(r, c, d)) = 1
                 /\ UpTo(r, c, n) = {}
         /\ ForwardIn(r) = Remove(Forward, n)
         /\ \A p \in InTree : r[p].val = node[p].val
C20_Witness ==
  /\ last.op = "delete" /\ last.path = "release" /\ last.link
  /\ Len(order) = 3
  /\ LET n == last.arg
         d == node[n].leaf_p
     IN /\ d \in InTree
        /\ node[d].bit = node[n].bit /\ node[d].bit # 0
        /\ node[d].leaf = node[n].leaf /\ node[d].link_p = node[n].link_p
        /\ \E s \in {0, 1} : node[node[d].link_p].leaf[s] = d
        /\ \E s \in {0, 1} : node[node[d].leaf[s]].link_p = d /\ node[node[d].leaf[s]].bit # 0

\* --------------------------------------------------- links above the leaves
\* the links met from link p up to the root, by link_p
RECURSIVE UpChain(_, _)
UpChain(p, fuel) ==
  IF p = NULL \/ fuel = 0 THEN {}
  ELSE {p} \cup UpChain(node[p].link_p, fuel - 1)
\* the links above the leaf of n: its leaf_p and the links above that one
AboveLeaf(n) == UpChain(node[n].leaf_p, MaxNodes + 1)

\* C21: a node of the tree whose bit is not 0 is a leaf that heads its list,
\* its own link is one of the links above its leaf and its link_p is not the
\* node itself; a node whose leaf hangs from the root has bit = 0, so that the
\* root case of __eb_delete never meets a link in use.
C21_LinkAboveLeaf ==
  /\ \A n \in InTree :
       node[n].bit # 0 =>
         /\ n \in Heads
         /\ n \in AboveLeaf(n)
         /\ node[n].link_p # n
  /\ \A n \in InTree : node[n].leaf_p = Root => node[n].bit = 0
  /\ \A n \in InTree : delete_path(node, n) = "root" => node[n].bit = 0
C21_Witness ==
  /\ last.op = "delete" /\ last.link
  /\ \E n \in InTree :
       /\ node[n].bit # 0
       /\ node[n].leaf_p # n
       /\ n \in AboveLeaf(n)
  /\ \E n \in InTree : node[n].bit # 0 /\ node[n].leaf_p = n

\* ------------------------------------------------------ the read-only calls
\* C22: a call of __eb32_lookup, eb_first_node, eb_last_node, eb_next_node or
\* eb_prev_node leaves every field of the root and of every node as it was.
C22_ReadOnlyFrame == [][ro'.op # "none" => node' = node]_vars
C22_Witness ==
  /\ ro.op = "prev" /\ ro.ret # NULL
  /\ last.op = "delete" /\ last.link
  /\ Len(order) = 2
  /\ node[ro.arg].leaf_p # NULL

\* C23 as stated: the body of the loop of eb_last_node runs exactly once, for
\* branch 1, and root child 0 is never examined.
C23_SinglePass == eb_last_passes(node, Root, U32(1)) = <<U32(1)>>
\* C23 as amended: the body runs once, for branch 1, when root child 1 is not
\* NULL; when it is NULL the body runs a second time, for branch 0, and
\* eb_last_node returns the rightmost leaf below root child 0 (NULL if there is
\* none); the decrement of 0 wraps to UINT_MAX, which ends the loop.
C23_TwoPasses ==
  LET t == eb_last_passes(node, Root, U32(1))
      r == eb_last_node(node, Root)
  IN /\ node[Root].leaf[1] # NULL =>
          /\ t = <<U32(1)>>
          /\ r = eb_walk_down(node, Root, 1, node[Root].leaf[1])
     /\ node[Root].leaf[1] = NULL =>
          /\ t = <<U32(1), U32(0)>>
          /\ r = eb_walk_down(node, Root, 1, node[Root].leaf[0])
          /\ Dec(U32(0)) = BitIdx /\ Gt(Dec(U32(0)), U32(1))
     /\ (r = NULL <=> order = <<>>)
     /\ ro.op = "last" => ro.ret = r
C23_Witness ==
  /\ ro.op = "last" /\ ro.ret # NULL
  /\ node[Root].leaf[1] = NULL
  /\ Len(order) = 2 /\ last.op = "delete"
  /\ eb_last_passes(node, Root, U32(1)) = <<U32(1), U32(0)>>
  /\ ro.ret = eb_walk_down(node, Root, 1, node[Root].leaf[0])

\* ------------------------------------------------- the length of the loops
\* Each operator below counts the passes of one loop of the code, as the code
\* makes them, and gives up after fuel passes: a result above fuel means that
\* the loop has not ended within fuel passes.
\* while (start->leaf_p != root) of __eb_walk_down
RECURSIVE walk_down_iters(_, _, _, _, _)
walk_down_iters(m, root, side, start, fuel) ==
  IF start = NULL THEN 0
  ELSE IF m[start].leaf_p = root THEN 0
  ELSE IF fuel = 0 THEN 1
  ELSE 1 + walk_down_iters(m, start, side, m[start].leaf[side], fuel - 1)

\* while (par->leaf[side] == node) of eb_walk_up
RECURSIVE walk_up_iters(_, _, _, _, _)
walk_up_iters(m, n, side, par, fuel) ==
  IF m[par].leaf[side] # n THEN 0
  ELSE IF fuel = 0 THEN 1
  ELSE IF m[par].link_p = NULL THEN 1
  ELSE 1 + walk_up_iters(m, par, side, m[par].link_p, fuel - 1)

\* while (1) of __eb32_lookup
RECURSIVE lookup_iters(_, _, _, _)
lookup_iters(m, root, x, fuel) ==
  LET parent == root
      r == IF BitAt(x, m[parent].bit - 1) = 1
           THEN m[parent].leaf[1] ELSE m[parent].leaf[0]
  IN IF fuel = 0 THEN 1
     ELSE IF r = NULL THEN 1
     ELSE IF m[r].leaf_p = parent THEN 1
     ELSE IF Xor(x, m[r].val) = Zero THEN 1
     ELSE IF Shr(Xor(x, m[r].val), m[r].bit) # Zero THEN 1
     ELSE 1 + lookup_iters(m, r, x, fuel - 1)

\* while (1) of __eb32_insert
RECURSIVE insert_iters(_, _, _, _, _)
insert_iters(m, x, root, next, fuel) ==
  IF fuel = 0 THEN 1
  ELSE IF m[next].leaf_p = root THEN 1
  ELSE IF Shr(Xor(x, m[next].val), m[next].bit) # Zero THEN 1
  ELSE 1 + insert_iters(m, x, next, m[next].leaf[BitAt(x, m[next].bit - 1)], fuel - 1)

\* the node eb_next_node / eb_prev_node walks up from: the head of the list of n
WalkFrom(m, n, d) == IF d # n THEN d ELSE n
\* the passes of the walk up and of the walk down of eb_next_node (side 1) and
\* of eb_prev_node (side 0)
step_up_iters(m, n, side, fuel) ==
  LET d == IF side = 1 THEN m[n].dup_n ELSE m[n].dup_p
      n1 == WalkFrom(m, n, d)
  IN IF d # n /\ m[d].leaf_p = NULL THEN 0
     ELSE walk_up_iters(m, n1, side, m[n1].leaf_p, fuel)
step_down_iters(m, n, side, fuel) ==
  LET d == IF side = 1 THEN m[n].dup_n ELSE m[n].dup_p
      n1 == WalkFrom(m, n, d)
      up == eb_walk_up(m, n1, side, m[n1].leaf_p)
  IN IF d # n /\ m[d].leaf_p = NULL THEN 0
     ELSE IF up = NULL THEN 0
     ELSE walk_down_iters(m, up, 1 - side, m[up].leaf[side], fuel)

\* the passes of the for loop of eb_first_node
RECURSIVE eb_first_passes(_, _, _)
eb_first_passes(m, root, branch) ==
  IF Le(branch, U32(1))
  THEN LET r == eb_walk_down(m, root, 0, m[root].leaf[BitAt(branch, 0)])
       IN IF r # NULL THEN <<branch>>
          ELSE <<branch>> \o eb_first_passes(m, root, Inc(branch))
  ELSE <<>>

\* the node the caller would pass to __eb32_insert next
Fresh == {n \in Nodes : n = used + 1}

\* C24: on every reachable tree every loop of every call ends, after at most
\* 32 passes: the descent of __eb32_lookup and of __eb32_insert started at a
\* link in use makes at most as many passes as the bit of that link (32 at the
\* root), a walk down below a link fewer passes than its bit, a walk up from a
\* link at most 33 minus its bit, and the for loops of eb_first_node and
\* eb_last_node two passes. __eb_delete has no descent and no ascent.
C24_LoopsBounded ==
  /\ \A b \in Links : \A x \in Queries :
       /\ lookup_iters(node, b, x, INTBITS) <= node[b].bit
       /\ LET next == node[b].leaf[BitAt(x, node[b].bit - 1)]
          IN next # NULL => insert_iters(node, x, b, next, INTBITS) <= node[b].bit
  /\ \A n \in Fresh : \A x \in Keys :
       LET next == node[Root].leaf[BitAt(x, 31)]
       IN next # NULL => insert_iters(node, x, Root, next, INTBITS) <= INTBITS
  /\ \A b \in Links : \A s \in {0, 1} : \A c \in {0, 1} :
       walk_down_iters(node, b, s, node[b].leaf[c], INTBITS) < node[b].bit
  /\ \A n \in Heads : \A s \in {0, 1} :
       walk_up_iters(node, n, s, node[n].leaf_p, INTBITS)
         <= INTBITS + 1 - node[node[n].leaf_p].bit
  /\ \A n \in InTree : \A s \in {0, 1} :
       /\ step_up_iters(node, n, s, INTBITS) <= INTBITS
       /\ step_down_iters(node, n, s, INTBITS) < INTBITS
  /\ Len(eb_first_passes(node, Root, U32(0))) <= 2
  /\ Len(eb_last_passes(node, Root, U32(1))) <= 2
C24_Witness ==
  /\ last.op = "delete" /\ last.link
  /\ \E b \in Links \ {Root} : \E x \in Queries :
       /\ node[b].bit = 2
       /\ lookup_iters(node, b, x, INTBITS) = 2
       /\ lookup_iters(node, Root, x, INTBITS) = 3
       /\ insert_iters(node, x, Root, node[Root].leaf[0], INTBITS) = 3
       /\ walk_down_iters(node, b, 0, node[b].leaf[0], INTBITS) = 1
  /\ \E n \in Heads : walk_up_iters(node, n, 0, node[n].leaf_p, INTBITS) = 3

\* ---------------------------------------------------- insertion, then deletion
\* the nodes that are not in the tree: those the caller has not used yet and
\* those it has deleted, which keep the fields they had in the tree
Outside == Nodes \ InTree
\* the heap after the caller sets n->val = x and calls __eb32_insert(root, n)
Inserted(m, n, x) == eb32_insert([m EXCEPT ![n].val = x], Root, n)
\* the heap and the return value after __eb_delete(n) follows at once
InsertedDeleted(m, n, x) == eb_delete(Inserted(m, n, x), n)
\* the fields of the claim: leaf[0], leaf[1], leaf_p, link_p, bit, dup.n, dup.p
Links7(m, p) == <<m[p].leaf[0], m[p].leaf[1], m[p].leaf_p, m[p].link_p,
                  m[p].bit, m[p].dup_n, m[p].dup_p>>

\* C25: for every node n outside the tree and every key, __eb32_insert(root, n)
\* followed at once by __eb_delete(n) leaves the root and every node of the
\* tree with the leaf[0], leaf[1], leaf_p, link_p, bit and dup links they had,
\* whatever the path of the insertion (empty branch, duplicate, split), and
\* __eb_delete returns zero exactly when the tree was empty.
C25_InsertDelete ==
  \A n \in Outside : \A x \in Keys :
    LET r == InsertedDeleted(node, n, x)
    IN /\ \A p \in InTree \cup {Root} : Links7(r.mem, p) = Links7(node, p)
       /\ \A p \in InTree \cup {Root} : r.mem[p].val = node[p].val
       /\ (r.ret = 0 <=> order = <<>>)
C25_Witness ==
  /\ last.op = "delete" /\ last.link
  /\ Len(order) = 3
  /\ \E n \in Outside :
       /\ n = last.arg
       /\ \A path \in {"empty", "dup", "split"} : \E x \in Keys :
            /\ insert_path([node EXCEPT ![n].val = x], Root, n) = path
            /\ \E p \in InTree \cup {Root} :
                 Links7(Inserted(node, n, x), p) # Links7(node, p)
            /\ \A p \in InTree \cup {Root} :
                 Links7(InsertedDeleted(node, n, x).mem, p) = Links7(node, p)
       /\ \E x \in Keys :
            LET w == insert_walk(node, x, Root, node[Root].leaf[0])
            IN /\ node[Root].leaf[0] # NULL
               /\ ~w.dup /\ w.root # Root /\ node[w.next].leaf_p # w.root

\* ------------------------------------------------ stale and zeroed nodes
\* last, prev, prev, ... until NULL, on heap m
RECURSIVE WalkPrevIn(_, _, _)
WalkPrevIn(m, n, fuel) ==
  IF n = NULL \/ fuel = 0 THEN <<>>
  ELSE <<n>> \o WalkPrevIn(m, eb_prev_node(m, n), fuel - 1)
BackwardIn(m) == WalkPrevIn(m, eb_last_node(m, Root), MaxNodes + 1)

\* the fields of p that are in use on heap m: val, leaf_p, dup, bit, and the
\* link part (leaf[], link_p) when p is the root or has bit # 0
InUse(m, p) ==
  <<m[p].val, m[p].leaf_p, m[p].dup_n, m[p].dup_p, m[p].bit,
    IF p = Root \/ m[p].bit # 0
    THEN <<m[p].leaf[0], m[p].leaf[1], m[p].link_p>> ELSE <<>> >>

\* C26: the same calls made with nodes that carry stale fields and with zeroed
\* nodes give the same results: every lookup, both traversals, the value
\* __eb_delete returned, the path and the result of every insertion and of every
\* deletion that can follow, and every field in use of the root and of the
\* nodes of the tree.
C26_StaleAsZeroed ==
  /\ \A x \in Queries : eb32_lookup(node, Root, x) = eb32_lookup(znode, Root, x)
  /\ ForwardIn(node) = ForwardIn(znode)
  /\ BackwardIn(node) = BackwardIn(znode)
  /\ ret = zret
  /\ \A p \in InTree \cup {Root} : InUse(node, p) = InUse(znode, p)
  /\ \A n \in Outside : \A x \in Keys :
       LET m == [node EXCEPT ![n].val = x]
           z == [znode EXCEPT ![n] = ZeroNode(x)]
       IN /\ insert_path(m, Root, n) = insert_path(z, Root, n)
          /\ InUse(eb32_insert(m, Root, n), n) = InUse(eb32_insert(z, Root, n), n)
  /\ \A n \in InTree :
       /\ delete_path(node, n) = delete_path(znode, n)
       /\ eb_delete(node, n).ret = eb_delete(znode, n).ret
C26_Witness ==
  /\ last.op = "delete" /\ last.path = "release"
  /\ Len(order) = 2
  /\ \E n \in InTree :
       /\ node[n].bit = 0 /\ znode[n].bit = 0
       /\ node[n].leaf[0] \in Nodes /\ znode[n].leaf[0] = NULL
       /\ node[n].link_p # NULL /\ znode[n].link_p = NULL
       /\ eb32_lookup(node, Root, node[n].val) = n
  /\ ForwardIn(node) = ForwardIn(znode)

\* ------------------------------------------------------------------- fls
\* C27: for a value that is not 0, fls returns the index, counted from 1, of
\* its highest set bit; so for the xor of the new key x and of a different value
\* y, bit fls - 1 is the highest bit in which x and y differ: they differ there
\* and agree on every bit from fls upwards (x >> fls = y >> fls).
C27_Fls ==
  flsv.arg # Zero =>
    /\ flsv.ret \in 1..INTBITS
    /\ (flsv.ret - 1) \in flsv.arg
    /\ \A i \in flsv.arg : i <= flsv.ret - 1
    /\ BitAt(flsv.x, flsv.ret - 1) # BitAt(flsv.y, flsv.ret - 1)
    /\ Shr(flsv.x, flsv.ret) = Shr(flsv.y, flsv.ret)
C27_Witness ==
  /\ flsv.ret = 14
  /\ flsv.arg = {9, 13}
  /\ 20 \in flsv.x /\ 20 \in flsv.y

====
